---- MODULE Spec2Model ----
(***************************************************************************)
(* Model of the support-ticket bot: the ticket lifecycle driven by the     *)
(* handlers of handlers/user.py and handlers/callbacks.py, the feedback    *)
(* cooldown of services/feedback.py, the periodic-job scheduler of         *)
(* services/scheduler.py, the shutdown sequence of main.py, the ban        *)
(* dialogues of handlers/admin.py and the operator-facing messages.        *)
(*                                                                         *)
(* The specifications share the variables:                                 *)
(*   Spec          ticket store + conversation state (ticket flows)        *)
(*   SpecFeedback  cooldown records, skip flag, feedback submissions       *)
(*   SpecSched     the scheduler loop and its public API                   *)
(*   SpecShutdown  run_bot and the shutdown_handler tasks                  *)
(*   SpecShutdownFair  the same under fair scheduling of the event loop    *)
(*   SpecAdmin     ban and unban dialogues, question validation            *)
(*   SpecRender    ticket cards, search and home screens                   *)
(*   SpecCards     ticket cards next to the ticket screen of the operator  *)
(*   SpecSearch    the ticket search of the operator                       *)
(*   SpecLookup    handlers called with ids that no store holds            *)
(*   SpecFlow      the ticket handlers step by step, interleaving at       *)
(*                 their awaits, with the renders of the card              *)
(*   SpecDispatch  the entry points: texts, media and buttons with their   *)
(*                 senders                                                 *)
(*   SpecBanned    the entry points with the buttons of the user menu and  *)
(*                 the ban dialogue                                        *)
(*   SpecPayload   the reply, ban and search dialogues of the operator     *)
(* services/tickets.py and services/bans.py are not part of the sources at *)
(* hand; the ticket store and the ban registry are written from the        *)
(* specification (sections 4.1 and 6).                                     *)
(***************************************************************************)
EXTENDS Integers, Sequences, FiniteSets, TLC

VARIABLES
    tickets,          \* ticket_service: ticket id -> ticket record
    next_id,          \* ticket_service: id the next created ticket gets
    rate_prompts,     \* ticket ids whose rating keyboard reached the user
    state,            \* context.user_data["state"], per user
    skip_cooldown,    \* context.user_data["skip_cooldown"], per user
    reply_ticket_id,  \* context.user_data["reply_ticket_id"], per user (0 = None)
    last_feedback,    \* feedback_service.last_feedback: <<user, kind>> -> time (-1 = no record)
    feedbacks,        \* feedback_service.feedbacks, in creation order
    now,              \* the wall clock read by datetime.now()
    last,             \* the last event handled and its outcome (history)
    running,          \* scheduler_service.running
    jobs,             \* scheduler_service.jobs: job id -> job_info
    entries,          \* the insertion-ordered entries of the jobs dict ("" = deleted)
    tasks,            \* scheduler_service.tasks: the loop tasks, in creation order
    stopping,         \* the stop() call in progress, if any
    main_pc,          \* run_bot: where the main coroutine stands
    shutdown_tasks,   \* the shutdown_handler tasks, in creation order
    stop_event,       \* run_bot: the asyncio.Event the main coroutine waits for
    trace,            \* the teardown calls made so far, in order (history)
    bans,             \* ban_manager: banned user id -> reason
    ban_user_id,      \* context.user_data["ban_user_id"] of the operator (<<>> = None, <<id>>)
    TICKET_CARD_MESSAGES, \* handlers.user: ticket id -> message id of its card (0 = no entry)
    chat,             \* the operator's chat: message id -> what the message shows
    renders,          \* the send_or_update_ticket_card calls in progress
    search_menu_msg_id, \* context.user_data["search_menu_msg_id"] of the operator (0 = None)
    ADMIN_SCREEN_MESSAGES, \* utils/admin_screen.py: screen type -> message id (0 = no entry)
    flows             \* the ticket handlers in progress, each at one of its awaits

vars == <<tickets, next_id, rate_prompts, state, skip_cooldown, reply_ticket_id,
          last_feedback, feedbacks, now, last, running, jobs, entries, tasks, stopping,
          main_pc, shutdown_tasks, stop_event, trace, bans, ban_user_id,
          TICKET_CARD_MESSAGES, chat, renders, search_menu_msg_id,
          ADMIN_SCREEN_MESSAGES, flows>>

ticketVars == <<tickets, next_id, rate_prompts>>
feedbackVars == <<last_feedback, feedbacks>>
schedVars == <<running, jobs, entries, tasks, stopping>>
botVars == <<ticketVars, state, skip_cooldown, reply_ticket_id, feedbackVars, last>>
handlerVars == <<ticketVars, state, skip_cooldown, reply_ticket_id, feedbackVars>>
shutdownVars == <<main_pc, shutdown_tasks, stop_event, trace>>
banVars == <<bans, ban_user_id>>
screenVars == <<TICKET_CARD_MESSAGES, chat, renders, search_menu_msg_id,
               ADMIN_SCREEN_MESSAGES>>
restVars == <<shutdownVars, banVars, screenVars>>

----------------------------------------------------------------------------
(* Bounds of the model *)

MaxTickets == 2      \* tickets ever created
MaxMessages == 3     \* messages held by the store, all tickets together
MaxClock == 1        \* clock readings of the ticket specification

MaxHours == 1        \* hours the clock of the feedback specification covers
MaxFeedbacks == 1    \* feedback records ever created
TicksPerSecond == 2  \* clock readings per second in the feedback specification
MaxTime == 3         \* seconds the clock of the scheduler specification covers
MaxEntries == 3      \* entries ever inserted into the jobs dict (it is rebuilt after 5)
MaxTasks == 2        \* loop tasks held by the scheduler at a time
ShortInterval == 1   \* interval of the hourly job, scaled to the clock
LongInterval == 2    \* interval of the daily job, scaled to the clock
MaxSignals == 2      \* shutdown signals delivered to the process
MaxIdLen == 2        \* characters of a text the operator sends as a user id
MaxBans == 1         \* users in the ban registry
MaxChat == 2         \* messages ever sent to the operator's chat
MaxRenders == 2      \* card renders in progress at a time
MaxFlows == 2        \* ticket handlers in progress at a time
MaxFlowTickets == 1  \* tickets ever created in the specification of the handlers in progress

(* Program constants *)

FEEDBACK_COOLDOWN_HOURS == 1
FEEDBACK_COOLDOWN_ENABLED == TRUE

ASK_MIN_LENGTH == 20

ADMIN_ID == "admin"
Users == {ADMIN_ID, "u1"}
TicketIds == 1..MaxTickets
\* two of the ratings the keyboard offers (excellent, good, ok)
Ratings == {"good", "ok"}
\* free texts a user may send, told apart by their length only
Texts == {"short", "long"}
\* texts of follow-up messages and replies (no length rule applies to them)
MessageTexts == {"long"}
len(text) == IF text = "short" THEN ASK_MIN_LENGTH - 1 ELSE ASK_MIN_LENGTH
Kinds == {"suggestion", "review"}

\* the jobs main.py registers, and their intervals
JobIds == {"cleanup_logs", "daily_backup"}
IntervalOf(job_id) == IF job_id = "cleanup_logs" THEN ShortInterval ELSE LongInterval
\* jobs[j] of a job id that is not a key of the dict
NoJob == [interval |-> 0, last_run |-> -1, next_run |-> -1, completed |-> -1]
\* a loop task that was created and has not run yet
NewTask == [pc |-> "ready", cancel |-> FALSE, exit |-> "none", tick |-> 0, pos |-> 0,
            used |-> 0, cur |-> "", started |-> 0, live |-> FALSE, slept |-> 0]
NoStop == [pc |-> "idle", idx |-> 0]
\* a slot without a render in progress
NoFlow == [op |-> "none", pc |-> "idle", ticket_id |-> 0, pressed |-> 0, slot |-> 0]
NoRender == [pc |-> "idle", ticket_id |-> 0, content |-> "", message_id |-> 0,
             edit_failed |-> FALSE]

\* the history record of an event: the handler, its outcome, and the status the
\* ticket it addressed had before (none: no such ticket)
StatusOf(id) == IF id \in DOMAIN tickets THEN tickets[id].status ELSE "none"
NoEvent == [op |-> "init", res |-> "none", pre |-> "none", hours |-> -1]
Event(op, u, id, res) == [op |-> op, res |-> res, pre |-> StatusOf(id), hours |-> -1]

----------------------------------------------------------------------------
(* TicketStore (specification section 4.1) *)

Message(sender, text, ts) == [sender |-> sender, text |-> text, timestamp |-> ts]

\* getActiveForUser: the non-done tickets of a user (the ids that qualify)
ActiveOf(u) == {t \in DOMAIN tickets : tickets[t].user_id = u /\ tickets[t].status # "done"}

\* get_user_active_ticket: one ticket id of ActiveOf, 0 when there is none
get_user_active_ticket(u) ==
    IF ActiveOf(u) = {} THEN 0 ELSE CHOOSE t \in ActiveOf(u) : \A s \in ActiveOf(u) : t <= s

\* create: refused with AlreadyActive when the user holds a non-done ticket
create_ok_nocheck(u) == TRUE
create_ok(u) == ActiveOf(u) = {}

create_ticket(u, text) ==
    [t \in DOMAIN tickets \cup {next_id} |->
        IF t = next_id
        THEN [user_id |-> u, status |-> "new",
              messages |-> <<Message("user", text, now)>>,
              last_actor |-> "user", rating |-> "none"]
        ELSE tickets[t]]

\* take: legal only from new
take_result_any(t) ==
    IF t \notin DOMAIN tickets THEN "NotFound" ELSE "ok"
take_result(t) ==
    IF t \notin DOMAIN tickets THEN "NotFound"
    ELSE IF tickets[t].status = "new" THEN "ok" ELSE "InvalidTransition"

take_ticket(t) ==
    IF take_result(t) = "ok" THEN [tickets EXCEPT ![t].status = "working"] ELSE tickets

\* close: from new or working to done; a done ticket stays done
close_status_reopen(s) == IF s = "done" THEN "new" ELSE "done"
close_status_taken_only(s) == IF s = "new" THEN "new" ELSE "done"
close_status(s) == "done"

close_result(t) == IF t \notin DOMAIN tickets THEN "NotFound" ELSE "ok"

close_ticket(t) ==
    IF t \in DOMAIN tickets
    THEN [tickets EXCEPT ![t].status = close_status(tickets[t].status)]
    ELSE tickets

\* addMessage: appends whatever the status, sets last_actor to the sender
add_message_prepend(t, sender, text) ==
    [tickets EXCEPT ![t].messages = <<Message(sender, text, now)>> \o @,
                    ![t].last_actor = sender]
add_message(t, sender, text) ==
    IF t \in DOMAIN tickets
    THEN [tickets EXCEPT ![t].messages = Append(@, Message(sender, text, now)),
                         ![t].last_actor = sender]
    ELSE tickets

\* messages held by the store
RECURSIVE MessageCount(_)
MessageCount(ids) ==
    IF ids = {} THEN 0
    ELSE LET t == CHOOSE x \in ids : TRUE
         IN Len(tickets[t].messages) + MessageCount(ids \ {t})
Room == MessageCount(DOMAIN tickets) < MaxMessages

\* rate: sets the rating, overwriting an earlier one
rate_ticket(t, r) ==
    IF t \in DOMAIN tickets THEN [tickets EXCEPT ![t].rating = r] ELSE tickets

\* clearActive: removes the non-done tickets, answers how many it removed
clear_active_tickets_all == <<>>
clear_active_tickets ==
    [t \in {d \in DOMAIN tickets : tickets[d].status = "done"} |-> tickets[t]]
clear_active_count ==
    Cardinality(DOMAIN tickets) - Cardinality(DOMAIN clear_active_tickets)

----------------------------------------------------------------------------
(* Initial state: empty stores, every user idle *)

Init ==
    /\ tickets = <<>>
    /\ next_id = 1
    /\ rate_prompts = {}
    /\ state = [u \in Users |-> "idle"]
    /\ skip_cooldown = [u \in Users |-> FALSE]
    /\ reply_ticket_id = [u \in Users |-> 0]
    /\ last_feedback = [k \in Users \X Kinds |-> -1]
    /\ feedbacks = <<>>
    /\ now = 0
    /\ last = NoEvent
    /\ running = FALSE
    /\ jobs = [j \in JobIds |-> NoJob]
    /\ entries = <<>>
    /\ tasks = <<>>
    /\ stopping = NoStop
    /\ main_pc = "wait"
    /\ shutdown_tasks = <<>>
    /\ stop_event = FALSE
    /\ trace = <<>>
    /\ bans = <<>>
    /\ ban_user_id = <<>>
    /\ TICKET_CARD_MESSAGES = [t \in TicketIds |-> 0]
    /\ chat = <<>>
    /\ renders = [i \in 1..MaxRenders |-> NoRender]
    /\ search_menu_msg_id = 0
    /\ ADMIN_SCREEN_MESSAGES = [screen \in {"ticket"} |-> 0]
    /\ flows = [k \in 1..MaxFlows |-> NoFlow]

----------------------------------------------------------------------------
(* Handlers of the ticket flows *)

\* /ask command: refuses while the user has an active ticket
ask_question_handler(u) ==
    LET active == get_user_active_ticket(u) IN
    /\ state' = IF active # 0 THEN state ELSE [state EXCEPT ![u] = "awaiting_question"]
    /\ last' = Event("ask", u, active, IF active # 0 THEN "in_progress" ELSE "prompt")
    /\ UNCHANGED <<ticketVars, skip_cooldown, reply_ticket_id, feedbackVars, now, schedVars, flows, restVars>>

\* 'user_start_question' button: the prompt is sent first, then the state is
\* set; a transport failure of the prompt leaves the state as it was
user_start_question(u) ==
    \E sent \in BOOLEAN :
        /\ state' = IF sent THEN [state EXCEPT ![u] = "awaiting_question"] ELSE state
        /\ last' = Event("start_question", u, 0, IF sent THEN "prompt" ELSE "transport_error")
        /\ UNCHANGED <<ticketVars, skip_cooldown, reply_ticket_id, feedbackVars, now, schedVars, flows, restVars>>

\* free text in awaiting_question
handle_question_text(u, text) ==
    /\ state[u] = "awaiting_question"
    /\ IF len(text) < ASK_MIN_LENGTH
       THEN /\ last' = Event("question", u, 0, "min_length")
            /\ UNCHANGED <<ticketVars, state>>
       ELSE IF create_ok(u)
       THEN /\ next_id <= MaxTickets
            /\ tickets' = create_ticket(u, text)
            /\ next_id' = next_id + 1
            /\ state' = [state EXCEPT ![u] = "idle"]
            /\ last' = Event("question", u, next_id, "created")
            /\ UNCHANGED rate_prompts
       ELSE \* create fails: raised before, or dereferenced after, the state is cleared
            /\ \E cleared \in BOOLEAN :
                  state' = IF cleared THEN [state EXCEPT ![u] = "idle"] ELSE state
            /\ last' = Event("question", u, 0, "AlreadyActive")
            /\ UNCHANGED ticketVars
    /\ UNCHANGED <<skip_cooldown, reply_ticket_id, feedbackVars, now, schedVars, flows, restVars>>

\* free text outside the awaiting_* states: a non-operator user with an active
\* ticket whose last actor is support appends a message
handle_ticket_message(u, text) ==
    LET active == get_user_active_ticket(u) IN
    /\ state[u] \notin {"awaiting_question", "awaiting_suggestion", "awaiting_review",
                      "awaiting_reply"}
    /\ u # ADMIN_ID
    /\ IF active = 0
       THEN /\ last' = Event("text", u, 0, "menu")
            /\ UNCHANGED tickets
       ELSE IF tickets[active].last_actor = "user"
       THEN /\ last' = Event("text", u, active, "wait")
            /\ UNCHANGED tickets
       ELSE /\ Room
            /\ tickets' = add_message(active, "user", text)
            /\ last' = Event("text", u, active, "user")
    /\ UNCHANGED <<next_id, rate_prompts, state, skip_cooldown, reply_ticket_id,
                   feedbackVars, now, schedVars, flows, restVars>>

\* The support reply with the state cleared before the ticket is looked up.
handle_admin_reply_clear(u, text) ==
    LET ticket_id == reply_ticket_id[u] IN
    /\ state[u] = "awaiting_reply"
    /\ IF ticket_id = 0
       THEN /\ last' = Event("reply_text", u, 0, "no_ticket_id")
            /\ UNCHANGED <<tickets, state, reply_ticket_id>>
       ELSE IF ticket_id \notin DOMAIN tickets
       THEN /\ last' = Event("reply_text", u, ticket_id, "NotFound")
            /\ state' = [state EXCEPT ![u] = "idle"]
            /\ UNCHANGED <<tickets, reply_ticket_id>>
       ELSE /\ Room
            /\ tickets' = add_message(ticket_id, "support", text)
            /\ state' = [state EXCEPT ![u] = "idle"]
            /\ reply_ticket_id' = [reply_ticket_id EXCEPT ![u] = 0]
            /\ last' = Event("reply_text", u, ticket_id, "support")
    /\ UNCHANGED <<next_id, rate_prompts, skip_cooldown, feedbackVars, now, schedVars, flows, restVars>>

\* free text in awaiting_reply: the support reply
handle_admin_reply(u, text) ==
    LET ticket_id == reply_ticket_id[u] IN
    /\ state[u] = "awaiting_reply"
    /\ IF ticket_id = 0
       THEN /\ last' = Event("reply_text", u, 0, "no_ticket_id")
            /\ UNCHANGED <<tickets, state, reply_ticket_id>>
       ELSE IF ticket_id \notin DOMAIN tickets
       THEN /\ last' = Event("reply_text", u, ticket_id, "NotFound")
            /\ UNCHANGED <<tickets, state, reply_ticket_id>>
       ELSE /\ Room
            /\ tickets' = add_message(ticket_id, "support", text)
            /\ state' = [state EXCEPT ![u] = "idle"]
            /\ reply_ticket_id' = [reply_ticket_id EXCEPT ![u] = 0]
            /\ last' = Event("reply_text", u, ticket_id, "support")
    /\ UNCHANGED <<next_id, rate_prompts, skip_cooldown, feedbackVars, now, schedVars, flows, restVars>>

\* back-to-menu commands: the state is cleared
back_to_service_handler(u) ==
    /\ state' = [state EXCEPT ![u] = "idle"]
    /\ last' = Event("back", u, 0, "idle")
    /\ UNCHANGED <<ticketVars, skip_cooldown, reply_ticket_id, feedbackVars, now, schedVars, flows, restVars>>

----------------------------------------------------------------------------
(* Operator buttons.  A card keeps its buttons in the chat after the ticket  *)
(* moved on, so a button of any ticket created so far can be pressed.        *)

Created == 1..(next_id - 1)

\* 'take:<id>'
handle_take_ticket(t) ==
    /\ t \in Created
    /\ tickets' = take_ticket(t)
    /\ last' = Event("take", ADMIN_ID, t, take_result(t))
    /\ UNCHANGED <<next_id, rate_prompts, state, skip_cooldown, reply_ticket_id,
                   feedbackVars, now, schedVars, flows, restVars>>

\* 'close:<id>': closes, re-renders the card, then sends the rating keyboard
\* to the ticket's user (best effort)
handle_close_ticket(t) ==
    /\ t \in Created
    /\ tickets' = close_ticket(t)
    /\ last' = Event("close", ADMIN_ID, t, close_result(t))
    /\ IF close_result(t) = "ok"
       THEN \E sent \in BOOLEAN :
               rate_prompts' = IF sent THEN rate_prompts \cup {t} ELSE rate_prompts
       ELSE UNCHANGED rate_prompts
    /\ UNCHANGED <<next_id, state, skip_cooldown, reply_ticket_id, feedbackVars, now, schedVars, flows, restVars>>

\* The reply button with the state written and the ticket id left as it was.
handle_reply_ticket_no_id(u, t) ==
    /\ t \in Created
    /\ IF t \notin DOMAIN tickets
       THEN /\ last' = Event("reply", u, t, "NotFound")
            /\ UNCHANGED state
       ELSE IF tickets[t].status # "working"
       THEN /\ last' = Event("reply", u, t, "not_working")
            /\ UNCHANGED state
       ELSE /\ state' = [state EXCEPT ![u] = "awaiting_reply"]
            /\ last' = Event("reply", u, t, "awaiting_reply")
    /\ UNCHANGED <<ticketVars, skip_cooldown, reply_ticket_id, feedbackVars, now,
                   schedVars, flows, restVars>>

\* 'reply:<id>' pressed by u: only a working ticket can be replied to; the
\* state and the ticket id are written to the user data of the sender
handle_reply_ticket(u, t) ==
    /\ t \in Created
    /\ IF t \notin DOMAIN tickets
       THEN /\ last' = Event("reply", u, t, "NotFound")
            /\ UNCHANGED <<state, reply_ticket_id>>
       ELSE IF tickets[t].status # "working"
       THEN /\ last' = Event("reply", u, t, "not_working")
            /\ UNCHANGED <<state, reply_ticket_id>>
       ELSE /\ state' = [state EXCEPT ![u] = "awaiting_reply"]
            /\ reply_ticket_id' = [reply_ticket_id EXCEPT ![u] = t]
            /\ last' = Event("reply", u, t, "awaiting_reply")
    /\ UNCHANGED <<ticketVars, skip_cooldown, feedbackVars, now, schedVars, flows, restVars>>

\* 'clear_tickets'
clear_tickets ==
    /\ tickets' = clear_active_tickets
    /\ last' = [op |-> "clear", res |-> "cleared", pre |-> "none",
                 hours |-> clear_active_count]   \* the number field holds the count
    /\ UNCHANGED <<next_id, rate_prompts, state, skip_cooldown, reply_ticket_id,
                   feedbackVars, now, schedVars, flows, restVars>>

\* 'rate:<id>:<rating>': the handler, whatever id the callback data names
rating_callback(t, r) ==
    /\ tickets' = rate_ticket(t, r)
    /\ last' = Event("rate", IF t \in DOMAIN tickets THEN tickets[t].user_id ELSE ADMIN_ID,
                     t, IF t \in DOMAIN tickets THEN r ELSE "NotFound")
    /\ UNCHANGED <<next_id, rate_prompts, state, skip_cooldown, reply_ticket_id,
                   feedbackVars, now, schedVars, flows, restVars>>

\* The rating button of a ticket whose keyboard was never sent.
handle_rating_unprompted(t, r) ==
    /\ t \in Created
    /\ rating_callback(t, r)

\* the same, pressed on a rating keyboard that was delivered
handle_rating(t, r) ==
    /\ t \in rate_prompts
    /\ rating_callback(t, r)

\* time passes between events
Tick ==
    /\ now < MaxClock
    /\ now' = now + 1
    /\ UNCHANGED <<ticketVars, state, skip_cooldown, reply_ticket_id, feedbackVars, last, schedVars, flows, restVars>>

----------------------------------------------------------------------------
(* Specification of the ticket flows *)

AskQuestion == \E u \in Users : ask_question_handler(u)
StartQuestion == \E u \in Users : user_start_question(u)
QuestionText == \E u \in Users, text \in Texts : handle_question_text(u, text)
TicketText == \E u \in Users, text \in MessageTexts : handle_ticket_message(u, text)
ReplyText == \E u \in Users, text \in MessageTexts : handle_admin_reply(u, text)
Back == \E u \in Users : back_to_service_handler(u)
Take == \E t \in TicketIds : handle_take_ticket(t)
Close == \E t \in TicketIds : handle_close_ticket(t)
Reply == \E t \in TicketIds : handle_reply_ticket(ADMIN_ID, t)
Rate == \E t \in TicketIds, r \in Ratings : handle_rating(t, r)

Next ==
    \/ AskQuestion
    \/ StartQuestion
    \/ QuestionText
    \/ TicketText
    \/ ReplyText
    \/ Back
    \/ Take
    \/ Close
    \/ Reply
    \/ clear_tickets
    \/ Rate
    \/ Tick

Spec == Init /\ [][Next]_vars

----------------------------------------------------------------------------
(* Feedback cooldown (services/feedback.py).  In the feedback specification *)
(* the clock counts ticks of 1/TicksPerSecond second: datetime.now() has    *)
(* sub-second resolution and total_seconds() is fractional.                 *)

Hour == 3600 * TicksPerSecond

\* clock readings around the hour marks: one second before, one tick before,
\* on the mark
Instants ==
    {i \in {h * Hour + o : h \in 0..MaxHours, o \in {0 - TicksPerSecond, -1, 0}} : i >= 0}

\* floor division, as // does
FloorDiv(a, b) == a \div b

\* elapsed and need of check_cooldown, in ticks
Elapsed(u, kind) == now - last_feedback[<<u, kind>>]
Need == FEEDBACK_COOLDOWN_HOURS * Hour

\* can_send of check_cooldown
can_send_strict(u, kind) ==
    \/ ~FEEDBACK_COOLDOWN_ENABLED
    \/ last_feedback[<<u, kind>>] = -1
    \/ Elapsed(u, kind) > Need
can_send(u, kind) ==
    \/ ~FEEDBACK_COOLDOWN_ENABLED
    \/ last_feedback[<<u, kind>>] = -1
    \/ Elapsed(u, kind) >= Need

\* the hours check_cooldown reports when it refuses:
\* int((need - elapsed + 3599) // 3600), the seconds being ticks / TicksPerSecond
remaining(u, kind) ==
    FloorDiv(Need - Elapsed(u, kind) + 3599 * TicksPerSecond, Hour)

\* update_last_feedback
update_last_feedback_all(u, kind) ==
    [k \in Users \X Kinds |-> IF k[1] = u THEN now ELSE last_feedback[k]]
update_last_feedback(u, kind) ==
    [last_feedback EXCEPT ![<<u, kind>>] = now]

\* create_feedback: a new record, not yet thanked
create_feedback(u, kind) ==
    Append(feedbacks, [user_id |-> u, type |-> kind, thanked |-> FALSE])

AwaitingState(kind) == IF kind = "suggestion" THEN "awaiting_suggestion" ELSE "awaiting_review"

\* history record of a feedback event: the handler, its outcome, the hours it reported
FeedbackEvent(op, res, hours) == [op |-> op, res |-> res, pre |-> "none", hours |-> hours]

\* /suggestion and /review commands: a refusal leaves the state as it is
feedback_command(u, kind) ==
    /\ IF can_send(u, kind)
       THEN /\ state' = [state EXCEPT ![u] = AwaitingState(kind)]
            /\ last' = FeedbackEvent("command", "prompt", -1)
       ELSE /\ UNCHANGED state
            /\ last' = FeedbackEvent("command", "cooldown", remaining(u, kind))
    /\ UNCHANGED <<ticketVars, skip_cooldown, reply_ticket_id, feedbackVars, now, schedVars, flows, restVars>>

suggestion_handler(u) == feedback_command(u, "suggestion")
review_handler(u) == feedback_command(u, "review")

\* 'user_suggestion' and 'user_review' buttons: a refusal clears the state
feedback_button(u, kind) ==
    /\ IF can_send(u, kind)
       THEN /\ state' = [state EXCEPT ![u] = AwaitingState(kind)]
            /\ last' = FeedbackEvent("button", "prompt", -1)
       ELSE /\ state' = [state EXCEPT ![u] = "idle"]
            /\ last' = FeedbackEvent("button", "cooldown", remaining(u, kind))
    /\ UNCHANGED <<ticketVars, skip_cooldown, reply_ticket_id, feedbackVars, now, schedVars, flows, restVars>>

user_suggestion(u) == feedback_button(u, "suggestion")
user_review(u) == feedback_button(u, "review")

\* 'after_rate_suggestion' and 'after_rate_review' buttons of the prompt that
\* follows a rating: the next submission skips the cooldown
after_rate_noflag(u, kind) ==
    /\ state' = [state EXCEPT ![u] = AwaitingState(kind)]
    /\ UNCHANGED skip_cooldown
    /\ last' = FeedbackEvent("after_rate", "prompt", -1)
    /\ UNCHANGED <<ticketVars, reply_ticket_id, feedbackVars, now, schedVars, flows, restVars>>
after_rate(u, kind) ==
    /\ state' = [state EXCEPT ![u] = AwaitingState(kind)]
    /\ skip_cooldown' = [skip_cooldown EXCEPT ![u] = TRUE]
    /\ last' = FeedbackEvent("after_rate", "prompt", -1)
    /\ UNCHANGED <<ticketVars, reply_ticket_id, feedbackVars, now, schedVars, flows, restVars>>

after_rate_suggestion(u) == after_rate(u, "suggestion")
after_rate_review(u) == after_rate(u, "review")

\* free text in awaiting_suggestion / awaiting_review;
\* the confirmation to the user is sent before the record is created: when
\* that send fails the handler ends there, after the cooldown record, the state
\* and the flag were written
Outcome(skipped, sent) ==
    IF skipped THEN (IF sent THEN "skipped" ELSE "skipped_lost")
    ELSE (IF sent THEN "accepted" ELSE "accepted_lost")

handle_feedback_text_keepflag(u, kind) ==
    /\ state[u] = AwaitingState(kind)
    /\ IF ~skip_cooldown[u] /\ ~can_send(u, kind)
       THEN /\ last' = FeedbackEvent("feedback_text", "cooldown", remaining(u, kind))
            /\ UNCHANGED <<state, skip_cooldown, feedbackVars>>
       ELSE \E sent \in BOOLEAN :
            /\ sent => Len(feedbacks) < MaxFeedbacks
            /\ last_feedback' = IF skip_cooldown[u] THEN last_feedback
                                ELSE update_last_feedback(u, kind)
            /\ state' = [state EXCEPT ![u] = "idle"]
            /\ UNCHANGED skip_cooldown
            /\ feedbacks' = IF sent THEN create_feedback(u, kind) ELSE feedbacks
            /\ last' = FeedbackEvent("feedback_text", Outcome(skip_cooldown[u], sent), -1)
    /\ UNCHANGED <<ticketVars, reply_ticket_id, now, schedVars, flows, restVars>>
handle_feedback_text(u, kind) ==
    /\ state[u] = AwaitingState(kind)
    /\ IF ~skip_cooldown[u] /\ ~can_send(u, kind)
       THEN /\ last' = FeedbackEvent("feedback_text", "cooldown", remaining(u, kind))
            /\ UNCHANGED <<state, skip_cooldown, feedbackVars>>
       ELSE \E sent \in BOOLEAN :
            /\ sent => Len(feedbacks) < MaxFeedbacks
            /\ last_feedback' = IF skip_cooldown[u] THEN last_feedback
                                ELSE update_last_feedback(u, kind)
            /\ state' = [state EXCEPT ![u] = "idle"]
            /\ skip_cooldown' = [skip_cooldown EXCEPT ![u] = FALSE]
            /\ feedbacks' = IF sent THEN create_feedback(u, kind) ELSE feedbacks
            /\ last' = FeedbackEvent("feedback_text", Outcome(skip_cooldown[u], sent), -1)
    /\ UNCHANGED <<ticketVars, reply_ticket_id, now, schedVars, flows, restVars>>

handle_suggestion_text(u) == handle_feedback_text(u, "suggestion")
handle_review_text(u) == handle_feedback_text(u, "review")

\* time passes between events
Advance ==
    /\ \E i \in Instants : i > now /\ now' = i
    /\ UNCHANGED <<ticketVars, state, skip_cooldown, reply_ticket_id, feedbackVars, last, schedVars, flows, restVars>>

SuggestionCommand == \E u \in Users : suggestion_handler(u)
ReviewCommand == \E u \in Users : review_handler(u)
SuggestionButton == \E u \in Users : user_suggestion(u)
ReviewButton == \E u \in Users : user_review(u)
AfterRateSuggestion == \E u \in Users : after_rate_suggestion(u)
AfterRateReview == \E u \in Users : after_rate_review(u)
SuggestionText == \E u \in Users : handle_suggestion_text(u)
ReviewText == \E u \in Users : handle_review_text(u)

NextFeedback ==
    \/ SuggestionCommand
    \/ ReviewCommand
    \/ SuggestionButton
    \/ ReviewButton
    \/ AfterRateSuggestion
    \/ AfterRateReview
    \/ SuggestionText
    \/ ReviewText
    \/ Back
    \/ Advance

SpecFeedback == Init /\ [][NextFeedback]_vars

----------------------------------------------------------------------------
(* Scheduler (services/scheduler.py).  In the scheduler specification the   *)
(* clock counts seconds.  A loop task is the coroutine _run_scheduler; it   *)
(* gives up control inside a job body and inside asyncio.sleep(1) only, so  *)
(* everything it does between two such points is one step.                  *)
(*                                                                          *)
(* The jobs dict is iterated while job bodies are suspended.  entries is    *)
(* its array of entries in insertion order: a new key is appended, a        *)
(* deleted key leaves a hole, a key that is assigned again keeps its place. *)
(* The iterator of the for loop remembers the number of keys the dict had   *)
(* when the loop began and a position in entries; its next step raises      *)
(* RuntimeError when the number of keys has changed.                        *)

Registered == {j \in JobIds : jobs[j] # NoJob}

\* the position in entries of the first due job after position p, 0 if none
NextDue(js, p, t) ==
    LET due == {q \in (p + 1)..Len(entries) :
                    entries[q] # "" /\ t >= js[entries[q]].next_run}
    IN  IF due = {} THEN 0 ELSE CHOOSE q \in due : \A r \in due : q <= r

\* the end of the coroutine
Done(task, how) ==
    [NewTask EXCEPT !.pc = "done", !.exit = how, !.cancel = task.cancel]

\* next_run = now + timedelta(seconds=interval), now being the time read at
\* the top of the while loop; completed is history, the time the run ended
reschedule(job_info, tick) ==
    [job_info EXCEPT !.next_run = tick + job_info.interval, !.completed = now]

\* the for loop from the iterator's next step up to the next job body or the sleep
scan(task, js) ==
    IF task.used # Cardinality(Registered)
    THEN Done(task, "error")
    ELSE LET q == NextDue(js, task.pos, task.tick)
         IN  IF q = 0
             THEN [task EXCEPT !.pc = "sleep", !.slept = now, !.pos = 0, !.used = 0,
                               !.cur = "", !.started = 0, !.live = FALSE]
             ELSE [task EXCEPT !.pc = "body", !.pos = q, !.cur = entries[q],
                               !.started = now, !.live = TRUE]

\* the top of the while loop
enter(task) ==
    IF ~running
    THEN Done(task, "stopped")
    ELSE scan([task EXCEPT !.tick = now, !.pos = 0, !.used = Cardinality(Registered)], jobs)

\* a suspended loop no longer holds the job_info that is in the dict
Orphan(job_id) ==
    [i \in DOMAIN tasks |->
        IF tasks[i].pc = "body" /\ tasks[i].cur = job_id
        THEN [tasks[i] EXCEPT !.live = FALSE] ELSE tasks[i]]

add_job(job_id, interval_seconds) ==
    /\ job_id \notin Registered => Len(entries) < MaxEntries
    /\ jobs' = [jobs EXCEPT ![job_id] = [interval |-> interval_seconds,
                                         last_run |-> -1, next_run |-> now,
                                         completed |-> -1]]
    /\ entries' = IF job_id \in Registered THEN entries ELSE Append(entries, job_id)
    /\ tasks' = Orphan(job_id)
    /\ UNCHANGED <<running, stopping, now, botVars, restVars, flows>>

remove_job(job_id) ==
    /\ IF job_id \in Registered
       THEN /\ jobs' = [jobs EXCEPT ![job_id] = NoJob]
            /\ entries' = [k \in DOMAIN entries |->
                              IF entries[k] = job_id THEN "" ELSE entries[k]]
            /\ tasks' = Orphan(job_id)
       ELSE UNCHANGED <<jobs, entries, tasks>>
    /\ UNCHANGED <<running, stopping, now, botVars, restVars, flows>>

\* the history record of a call of the scheduler's API
SchedEvent(op, res) == [op |-> op, res |-> res, pre |-> "none", hours |-> -1]

start_unguarded ==
    /\ Len(tasks) < MaxTasks
    /\ running' = TRUE
    /\ tasks' = Append(tasks, NewTask)
    /\ last' = SchedEvent("start", "started")
    /\ UNCHANGED <<jobs, entries, stopping, now, handlerVars, restVars, flows>>
start ==
    /\ IF running
       THEN /\ last' = SchedEvent("start", "already")
            /\ UNCHANGED <<running, tasks>>
       ELSE /\ Len(tasks) < MaxTasks
            /\ running' = TRUE
            /\ tasks' = Append(tasks, NewTask)
            /\ last' = SchedEvent("start", "started")
    /\ UNCHANGED <<jobs, entries, stopping, now, handlerVars, restVars, flows>>

\* the for loop of stop() from the task at position k: a task that is done is
\* passed over, any other is cancelled and awaited
RECURSIVE StopFrom(_, _)
StopFrom(k, ts) ==
    IF k > Len(ts)
    THEN <<NoStop, <<>>>>
    ELSE IF ts[k].pc = "done"
         THEN StopFrom(k + 1, ts)
         ELSE <<[pc |-> "await", idx |-> k], [ts EXCEPT ![k].cancel = TRUE]>>

\* whether the call of stop() whose for loop reached this point has returned
StopResult(st) == IF st = NoStop THEN "returned" ELSE "awaiting"

\* a call of stop(): with running false it returns at once, also while an
\* earlier call is still awaiting a loop task; one call passes the running
\* test at a time
stop ==
    /\ IF ~running
       THEN /\ last' = SchedEvent("stop", "returned")
            /\ UNCHANGED <<running, tasks, stopping>>
       ELSE /\ stopping.pc = "idle"
            /\ running' = FALSE
            /\ stopping' = StopFrom(1, tasks)[1]
            /\ tasks' = StopFrom(1, tasks)[2]
            /\ last' = SchedEvent("stop", StopResult(StopFrom(1, tasks)[1]))
    /\ UNCHANGED <<jobs, entries, now, handlerVars, restVars, flows>>

\* stop() resumes when the task it awaits has ended
stop_resume ==
    /\ stopping.pc = "await"
    /\ tasks[stopping.idx].pc = "done"
    /\ stopping' = StopFrom(stopping.idx + 1, tasks)[1]
    /\ tasks' = StopFrom(stopping.idx + 1, tasks)[2]
    /\ last' = SchedEvent("stop", StopResult(StopFrom(stopping.idx + 1, tasks)[1]))
    /\ UNCHANGED <<running, jobs, entries, now, handlerVars, restVars, flows>>

\* a task that was cancelled takes its next step, which ends it, before any
\* task created after the cancellation takes its first (the event loop runs
\* its callbacks in the order they were scheduled)
CancelPending(i) == \E k \in 1..(i - 1) : tasks[k].cancel /\ tasks[k].pc # "done"

\* the first step of a loop task
loop_begin(i) ==
    /\ tasks[i].pc = "ready"
    /\ ~CancelPending(i)
    /\ tasks' = [tasks EXCEPT ![i] = IF tasks[i].cancel THEN Done(tasks[i], "cancelled")
                                     ELSE enter(tasks[i])]
    /\ UNCHANGED <<running, jobs, entries, stopping, now, botVars, restVars, flows>>

\* asyncio.sleep(1) ends, by time or by a cancellation
loop_wake(i) ==
    /\ tasks[i].pc = "sleep"
    /\ tasks[i].cancel \/ now >= tasks[i].slept + 1
    /\ tasks' = [tasks EXCEPT ![i] = IF tasks[i].cancel THEN Done(tasks[i], "cancelled")
                                     ELSE enter(tasks[i])]
    /\ UNCHANGED <<running, jobs, entries, stopping, now, botVars, restVars, flows>>

\* the job body returns: last_run and next_run are written to the job_info the
\* loop holds, and the for loop goes on
job_returns(i) ==
    /\ tasks[i].pc = "body" /\ ~tasks[i].cancel
    /\ LET j == tasks[i].cur
           js == IF tasks[i].live
                 THEN [jobs EXCEPT ![j] = reschedule([jobs[j] EXCEPT !.last_run = tasks[i].tick],
                                                     tasks[i].tick)]
                 ELSE jobs
       IN  /\ jobs' = js
           /\ tasks' = [tasks EXCEPT ![i] = scan(tasks[i], js)]
    /\ UNCHANGED <<running, entries, stopping, now, botVars, restVars, flows>>

\* the job body raises an Exception: the inner handler reschedules the job
job_raises(i) ==
    /\ tasks[i].pc = "body" /\ ~tasks[i].cancel
    /\ LET j == tasks[i].cur
           js == IF tasks[i].live
                 THEN [jobs EXCEPT ![j] = reschedule(jobs[j], tasks[i].tick)]
                 ELSE jobs
       IN  /\ jobs' = js
           /\ tasks' = [tasks EXCEPT ![i] = scan(tasks[i], js)]
    /\ UNCHANGED <<running, entries, stopping, now, botVars, restVars, flows>>

\* CancelledError is thrown into the suspended job body; it is not an
\* Exception, so the inner handler lets it pass and the loop ends
job_cancelled(i) ==
    /\ tasks[i].pc = "body" /\ tasks[i].cancel
    /\ tasks' = [tasks EXCEPT ![i] = Done(tasks[i], "cancelled")]
    /\ UNCHANGED <<running, jobs, entries, stopping, now, botVars, restVars, flows>>

\* a second passes
Second ==
    /\ now < MaxTime
    /\ now' = now + 1
    /\ UNCHANGED <<schedVars, flows, botVars, restVars>>

AddJob == \E j \in JobIds : add_job(j, IntervalOf(j))
RemoveJob == \E j \in JobIds : remove_job(j)
LoopBegin == \E i \in DOMAIN tasks : loop_begin(i)
LoopWake == \E i \in DOMAIN tasks : loop_wake(i)
JobReturns == \E i \in DOMAIN tasks : job_returns(i)
JobRaises == \E i \in DOMAIN tasks : job_raises(i)
JobCancelled == \E i \in DOMAIN tasks : job_cancelled(i)

NextSched ==
    \/ AddJob
    \/ RemoveJob
    \/ start
    \/ stop
    \/ stop_resume
    \/ LoopBegin
    \/ LoopWake
    \/ JobReturns
    \/ JobRaises
    \/ JobCancelled
    \/ Second

SpecSched == Init /\ [][NextSched]_vars

----------------------------------------------------------------------------
(* Shutdown: run_bot from the installation of the signal handlers on, and  *)
(* the shutdown_handler tasks the signals create (main.py).  The calls to  *)
(* the scheduler, the alert service, the storage and the transport are     *)
(* recorded in trace when they are made; ok tells whether the call         *)
(* returned or raised.                                                     *)

Call(what, ok) == [what |-> what, ok |-> ok]
\* an awaited call that raised leaves the error its except clause logs
Logged(what, ok) == IF ok THEN <<>> ELSE <<Call(what, FALSE)>>
TransportStops == {"updater_stop", "application_stop"}

(* signal_handler: SIGINT or SIGTERM creates a shutdown_handler task *)
signal_handler ==
    /\ main_pc # "exited"
    /\ Len(shutdown_tasks) < MaxSignals
    /\ shutdown_tasks' = Append(shutdown_tasks, "created")
    /\ UNCHANGED <<main_pc, stop_event, trace>>
    /\ UNCHANGED <<botVars, now, schedVars, flows, banVars, screenVars>>

(* shutdown_handler up to its first suspension: scheduler_service.stop() is called *)
shutdown_stop_scheduler(i) ==
    /\ shutdown_tasks[i] = "created"
    /\ shutdown_tasks' = [shutdown_tasks EXCEPT ![i] = "stop"]
    /\ trace' = Append(trace, Call("scheduler_stop", TRUE))
    /\ UNCHANGED <<main_pc, stop_event>>
    /\ UNCHANGED <<botVars, now, schedVars, flows, banVars, screenVars>>

(* The same step with the event set before the data is saved. *)
shutdown_send_alert_early_set(i) ==
    /\ shutdown_tasks[i] = "stop"
    /\ shutdown_tasks' = [shutdown_tasks EXCEPT ![i] = "alert"]
    /\ \E ok \in BOOLEAN :
           trace' = trace \o Logged("scheduler_stop_failed", ok) \o <<Call("alert", TRUE)>>
    /\ stop_event' = TRUE
    /\ UNCHANGED main_pc
    /\ UNCHANGED <<botVars, now, schedVars, flows, banVars, screenVars>>

(* the stop returned or raised (both are logged); send_shutdown_alert() is called *)
shutdown_send_alert(i) ==
    /\ shutdown_tasks[i] = "stop"
    /\ shutdown_tasks' = [shutdown_tasks EXCEPT ![i] = "alert"]
    /\ \E ok \in BOOLEAN :
           trace' = trace \o Logged("scheduler_stop_failed", ok) \o <<Call("alert", TRUE)>>
    /\ UNCHANGED <<main_pc, stop_event>>
    /\ UNCHANGED <<botVars, now, schedVars, flows, banVars, screenVars>>

(* The same step with an error of the save ending the handler. *)
shutdown_save_propagates(i) ==
    /\ shutdown_tasks[i] = "alert"
    /\ \E sent, ok \in BOOLEAN :
           /\ trace' = trace \o Logged("alert_failed", sent) \o <<Call("save", ok)>>
           /\ stop_event' = (stop_event \/ ok)
    /\ shutdown_tasks' = [shutdown_tasks EXCEPT ![i] = "done"]
    /\ UNCHANGED main_pc
    /\ UNCHANGED <<botVars, now, schedVars, flows, banVars, screenVars>>

(* the alert returned or raised; data_manager.save() and stop_event.set()  *)
(* follow without a suspension in between                                  *)
shutdown_save(i) ==
    /\ shutdown_tasks[i] = "alert"
    /\ \E sent, ok \in BOOLEAN :
           trace' = trace \o Logged("alert_failed", sent) \o <<Call("save", ok)>>
    /\ stop_event' = TRUE
    /\ shutdown_tasks' = [shutdown_tasks EXCEPT ![i] = "done"]
    /\ UNCHANGED main_pc
    /\ UNCHANGED <<botVars, now, schedVars, flows, banVars, screenVars>>

(* run_bot: stop_event.wait() returns, application.updater.stop() is called *)
updater_stop ==
    /\ main_pc = "wait"
    /\ stop_event
    /\ main_pc' = "updater_stop"
    /\ trace' = Append(trace, Call("updater_stop", TRUE))
    /\ UNCHANGED <<shutdown_tasks, stop_event>>
    /\ UNCHANGED <<botVars, now, schedVars, flows, banVars, screenVars>>

(* run_bot, finally: whether the polling stop returned or raised,          *)
(* scheduler_service.stop() is called                                      *)
finally_stop_scheduler ==
    /\ main_pc = "updater_stop"
    /\ main_pc' = "scheduler_stop"
    /\ \E ok \in BOOLEAN :
           trace' = [trace EXCEPT ![Len(trace)].ok = ok]
                    \o <<Call("scheduler_stop", TRUE)>>
    /\ UNCHANGED <<shutdown_tasks, stop_event>>
    /\ UNCHANGED <<botVars, now, schedVars, flows, banVars, screenVars>>

(* run_bot, finally: application.stop() is called *)
application_stop ==
    /\ main_pc = "scheduler_stop"
    /\ main_pc' = "application_stop"
    /\ trace' = Append(trace, Call("application_stop", TRUE))
    /\ UNCHANGED <<shutdown_tasks, stop_event>>
    /\ UNCHANGED <<botVars, now, schedVars, flows, banVars, screenVars>>

(* run_bot returns; asyncio.run cancels the tasks that have not finished *)
run_bot_returns ==
    /\ main_pc = "application_stop"
    /\ main_pc' = "exited"
    /\ shutdown_tasks' = [i \in DOMAIN shutdown_tasks |->
                              IF shutdown_tasks[i] = "done" THEN "done" ELSE "cancelled"]
    /\ UNCHANGED <<stop_event, trace>>
    /\ UNCHANGED <<botVars, now, schedVars, flows, banVars, screenVars>>

ShutdownStopScheduler == \E i \in DOMAIN shutdown_tasks : shutdown_stop_scheduler(i)
ShutdownSendAlert == \E i \in DOMAIN shutdown_tasks : shutdown_send_alert(i)
ShutdownSave == \E i \in DOMAIN shutdown_tasks : shutdown_save(i)

NextShutdown ==
    \/ signal_handler
    \/ ShutdownStopScheduler
    \/ ShutdownSendAlert
    \/ ShutdownSave
    \/ updater_stop
    \/ finally_stop_scheduler
    \/ application_stop
    \/ run_bot_returns

SpecShutdown == Init /\ [][NextShutdown]_vars

(* The event loop runs every task that is ready, and every awaited call    *)
(* ends, by return or by raise; whether a signal arrives is up to the      *)
(* environment.                                                            *)
ShutdownFairness ==
    /\ WF_vars(ShutdownStopScheduler)
    /\ WF_vars(ShutdownSendAlert)
    /\ WF_vars(ShutdownSave)
    /\ WF_vars(updater_stop)
    /\ WF_vars(finally_stop_scheduler)
    /\ WF_vars(application_stop)
    /\ WF_vars(run_bot_returns)

SpecShutdownFair == Init /\ [][NextShutdown]_vars /\ ShutdownFairness

----------------------------------------------------------------------------
(* Ban and unban dialogues of the operator (handlers/admin.py,             *)
(* handlers/callbacks.py).  services/bans.py is not part of the sources at *)
(* hand; the registry operations are written from the specification        *)
(* (section 6, BanRegistry).                                               *)

\* the characters of the texts sent as a user id: two digits, a blank and
\* the sign, which int() accepts in front of the digits only and refuses
\* anywhere else, as it refuses a letter
IdChars == {"0", "1", "-", " "}
IdTexts == UNION {[1..n -> IdChars] : n \in 1..MaxIdLen}
\* the reasons the operator gives (a text message is never empty)
Reasons == {"r1", "r2"}
\* what int() answers for a text it refuses: no text of MaxIdLen characters
\* has this value
ValueError == -(10 ^ MaxIdLen)
None == ""

\* str.strip(): the text without its leading and trailing blanks
RECURSIVE lstrip(_)
lstrip(text) ==
    IF text # <<>> /\ Head(text) = " " THEN lstrip(Tail(text)) ELSE text
RECURSIVE rstrip(_)
rstrip(text) ==
    IF text # <<>> /\ text[Len(text)] = " "
    THEN rstrip(SubSeq(text, 1, Len(text) - 1))
    ELSE text
strip(text) == rstrip(lstrip(text))

\* int(): the value of a text of digits with an optional sign, ValueError for
\* any other text
IsDigit(c) == c \in {"0", "1"}
DigitValue(c) == IF c = "1" THEN 1 ELSE 0
RECURSIVE DecimalValue(_)
DecimalValue(text) ==
    IF text = <<>> THEN 0
    ELSE 10 * DecimalValue(SubSeq(text, 1, Len(text) - 1)) + DigitValue(text[Len(text)])
IsDigits(text) == text # <<>> /\ \A i \in DOMAIN text : IsDigit(text[i])
int(text) ==
    IF IsDigits(text) THEN DecimalValue(text)
    ELSE IF text # <<>> /\ Head(text) = "-" /\ IsDigits(Tail(text))
    THEN 0 - DecimalValue(Tail(text))
    ELSE ValueError

\* BanRegistry.list(): the (user id, reason) pairs
get_banned_list == {<<id, bans[id]>> : id \in DOMAIN bans}
\* BanRegistry.ban(userId, reason): the record of userId is set to reason
ban_user(user_id, reason) ==
    [id \in DOMAIN bans \cup {user_id} |-> IF id = user_id THEN reason ELSE bans[id]]
\* BanRegistry.unban(userId)
unban_user(user_id) == [id \in DOMAIN bans \ {user_id} |-> bans[id]]

\* the scan of get_banned_list() for user_id: its reason, None when absent
ReasonOf(user_id) ==
    IF \E pair \in get_banned_list : pair[1] = user_id
    THEN (CHOOSE pair \in get_banned_list : pair[1] = user_id)[2]
    ELSE None

AdminEvent(op, res, user_id, reason) ==
    [op |-> op, res |-> res, pre |-> state[ADMIN_ID], hours |-> -1,
     user_id |-> user_id, reason |-> reason]

\* 'ban_user' button pressed by u
ban_user_button(u) ==
    /\ state' = [state EXCEPT ![u] = "awaiting_ban_user_id"]
    /\ last' = [AdminEvent("ban_user", "enter_user_id", 0, None) EXCEPT !.pre = state[u]]
    /\ UNCHANGED <<ticketVars, skip_cooldown, reply_ticket_id, feedbackVars, now,
                   schedVars, flows, shutdownVars, screenVars, banVars>>

\* 'unban_user' button pressed by u
unban_user_button(u) ==
    /\ state' = [state EXCEPT ![u] = "awaiting_unban_user_id"]
    /\ last' = [AdminEvent("unban_user", "enter_unban_id", 0, None) EXCEPT !.pre = state[u]]
    /\ UNCHANGED <<ticketVars, skip_cooldown, reply_ticket_id, feedbackVars, now,
                   schedVars, flows, shutdownVars, screenVars, banVars>>

\* The id branch with the state advanced before the text is parsed.
handle_ban_user_id_advance(text) ==
    /\ state[ADMIN_ID] = "awaiting_ban_user_id"
    /\ state' = [state EXCEPT ![ADMIN_ID] = "awaiting_ban_reason"]
    /\ IF int(strip(text)) = ValueError
       THEN /\ last' = AdminEvent("ban_user_id", "invalid_id_format", 0, None)
            /\ UNCHANGED ban_user_id
       ELSE /\ ban_user_id' = <<int(strip(text))>>
            /\ last' = AdminEvent("ban_user_id", "enter_ban_reason", int(strip(text)), None)
    /\ UNCHANGED <<ticketVars, skip_cooldown, reply_ticket_id, feedbackVars, now,
                   schedVars, flows, shutdownVars, screenVars, bans>>

\* admin_text_handler, state awaiting_ban_user_id
handle_ban_user_id(text) ==
    /\ state[ADMIN_ID] = "awaiting_ban_user_id"
    /\ IF int(strip(text)) = ValueError
       THEN /\ last' = AdminEvent("ban_user_id", "invalid_id_format", 0, None)
            /\ UNCHANGED <<state, ban_user_id>>
       ELSE /\ ban_user_id' = <<int(strip(text))>>
            /\ state' = [state EXCEPT ![ADMIN_ID] = "awaiting_ban_reason"]
            /\ last' = AdminEvent("ban_user_id", "enter_ban_reason", int(strip(text)), None)
    /\ UNCHANGED <<ticketVars, skip_cooldown, reply_ticket_id, feedbackVars, now,
                   schedVars, flows, shutdownVars, screenVars, bans>>

\* context.user_data.get("ban_user_id"), read where it is not None
stored_user_id == ban_user_id[1]

\* admin_text_handler, state awaiting_ban_reason: a falsy ban_user_id (None, 0)
\* ends the handler; an existing ban is reported and the state is cleared
\* after the report was sent; otherwise the ban is recorded
handle_ban_reason(text) ==
    /\ state[ADMIN_ID] = "awaiting_ban_reason"
    /\ IF ban_user_id = <<>> \/ stored_user_id = 0
       THEN /\ last' = AdminEvent("ban_reason", "ignored", 0, None)
            /\ UNCHANGED <<state, bans>>
       ELSE IF ReasonOf(stored_user_id) # None
       THEN /\ \E sent \in BOOLEAN :
                  /\ state' = IF sent THEN [state EXCEPT ![ADMIN_ID] = "idle"] ELSE state
                  /\ last' = AdminEvent("ban_reason",
                                        IF sent THEN "user_already_banned"
                                                ELSE "transport_error",
                                        stored_user_id, ReasonOf(stored_user_id))
            /\ UNCHANGED bans
       ELSE /\ bans' = ban_user(stored_user_id, text)
            /\ state' = [state EXCEPT ![ADMIN_ID] = "idle"]
            /\ last' = AdminEvent("ban_reason", "user_banned", stored_user_id, text)
    /\ UNCHANGED <<ticketVars, skip_cooldown, reply_ticket_id, feedbackVars, now,
                   schedVars, flows, shutdownVars, screenVars, ban_user_id>>

\* admin_text_handler, state awaiting_unban_user_id: a user who is not banned
\* is reported and the state is cleared after the report was sent; a banned
\* user is removed from the registry
handle_unban_user_id(text) ==
    /\ state[ADMIN_ID] = "awaiting_unban_user_id"
    /\ IF int(strip(text)) = ValueError
       THEN /\ last' = AdminEvent("unban_user_id", "invalid_id_format", 0, None)
            /\ UNCHANGED <<state, bans>>
       ELSE IF ReasonOf(int(strip(text))) = None
       THEN /\ \E sent \in BOOLEAN :
                  /\ state' = IF sent THEN [state EXCEPT ![ADMIN_ID] = "idle"] ELSE state
                  /\ last' = AdminEvent("unban_user_id",
                                        IF sent THEN "user_not_banned"
                                                ELSE "transport_error",
                                        int(strip(text)), None)
            /\ UNCHANGED bans
       ELSE /\ bans' = unban_user(int(strip(text)))
            /\ state' = [state EXCEPT ![ADMIN_ID] = "idle"]
            /\ last' = AdminEvent("unban_user_id", "user_unbanned",
                                  int(strip(text)), ReasonOf(int(strip(text))))
    /\ UNCHANGED <<ticketVars, skip_cooldown, reply_ticket_id, feedbackVars, now,
                   schedVars, flows, shutdownVars, screenVars, ban_user_id>>

BanUserId == \E text \in IdTexts : handle_ban_user_id(text)
\* the registry holds at most MaxBans users: a reason that would ban one
\* more is not sent
RegistryHasRoom ==
    IF ban_user_id = <<>> THEN TRUE
    ELSE stored_user_id = 0 \/ Cardinality(DOMAIN bans \cup {stored_user_id}) <= MaxBans
BanReason == \E text \in Reasons : RegistryHasRoom /\ handle_ban_reason(text)
UnbanUserId == \E text \in IdTexts : handle_unban_user_id(text)

NextAdmin ==
    \/ ban_user_button(ADMIN_ID)
    \/ unban_user_button(ADMIN_ID)
    \/ BanUserId
    \/ BanReason
    \/ UnbanUserId
    \/ AskQuestion
    \/ StartQuestion
    \/ QuestionText
    \/ Back

SpecAdmin == Init /\ [][NextAdmin]_vars

----------------------------------------------------------------------------
(* Operator-facing messages: the ticket cards of send_or_update_ticket_card *)
(* (handlers/user.py) and the search and home screens of callback_handler   *)
(* (handlers/callbacks.py).  chat is the operator's chat as the transport   *)
(* holds it; a message id is its position in chat.                          *)

\* what a card can show (text and keyboard), told apart by equality only
Contents == {"a", "b"}
\* what a message renders: the card of a ticket, or a screen
CardKey(ticket_id) == [screen |-> "ticket", ticket_id |-> ticket_id]
ScreenKey(screen) == [screen |-> screen, ticket_id |-> 0]
Msg(key, content) == [key |-> key, content |-> content, live |-> TRUE]
Live == {id \in DOMAIN chat : chat[id].live}
RenderEvent(op, res, key, id) ==
    [op |-> op, res |-> res, pre |-> "none", hours |-> -1, key |-> key, id |-> id]

\* the first slot without a render in progress, 0 when there is none
FreeSlot ==
    IF \E i \in DOMAIN renders : renders[i].pc = "idle"
    THEN CHOOSE i \in DOMAIN renders :
             /\ renders[i].pc = "idle"
             /\ \A k \in 1..(i - 1) : renders[k].pc # "idle"
    ELSE 0

\* send_or_update_ticket_card up to its first await: the edit when a message
\* id was passed, the send otherwise
send_or_update_ticket_card(ticket_id, content, message_id) ==
    /\ FreeSlot # 0
    /\ renders' = [renders EXCEPT ![FreeSlot] =
                       [pc |-> IF message_id # 0 THEN "edit" ELSE "send",
                        ticket_id |-> ticket_id, content |-> content,
                        message_id |-> message_id, edit_failed |-> FALSE]]
    /\ last' = RenderEvent("render", "called", CardKey(ticket_id), 0)

\* the callers that pass TICKET_CARD_MESSAGES.get(ticket_id): a new ticket
\* (no entry yet), a message of the user, a reply of the operator, a rating
update_ticket_card(ticket_id, content) ==
    /\ send_or_update_ticket_card(ticket_id, content, TICKET_CARD_MESSAGES[ticket_id])
    /\ UNCHANGED <<TICKET_CARD_MESSAGES, chat, search_menu_msg_id,
                   ADMIN_SCREEN_MESSAGES>>
    /\ UNCHANGED <<handlerVars, now, schedVars, flows, shutdownVars, banVars>>

\* handle_take_ticket, handle_close_ticket: the stored id, or else the id of
\* the message whose button was pressed, is stored and passed
button_ticket_card(ticket_id, content, pressed) ==
    LET message_id == IF TICKET_CARD_MESSAGES[ticket_id] # 0
                      THEN TICKET_CARD_MESSAGES[ticket_id]
                      ELSE pressed
    IN  /\ pressed \in Live
        /\ chat[pressed].key = CardKey(ticket_id)
        /\ TICKET_CARD_MESSAGES' = [TICKET_CARD_MESSAGES EXCEPT ![ticket_id] = message_id]
        /\ send_or_update_ticket_card(ticket_id, content, message_id)
        /\ UNCHANGED <<chat, search_menu_msg_id,
                   ADMIN_SCREEN_MESSAGES>>
        /\ UNCHANGED <<handlerVars, now, schedVars, flows, shutdownVars, banVars>>

\* the handler that awaits a render goes on when the render returns: the
\* close handler to its rating prompt, the others to their end
ResumeNoPrompt(flow) == NoFlow
Resume(flow) ==
    IF flow.op = "close" THEN [flow EXCEPT !.pc = "prompt", !.slot = 0] ELSE NoFlow
render_returns(i) ==
    [k \in DOMAIN flows |->
        IF flows[k].pc = "render" /\ flows[k].slot = i THEN Resume(flows[k]) ELSE flows[k]]

\* what edit_message_text can answer for a message and a new content
EditOutcomes(id, key, content) ==
    {"network"} \cup
    (IF id \notin Live THEN {"not_found"}
     ELSE IF chat[id].key = key /\ chat[id].content = content THEN {"not_modified"}
     ELSE {"ok"})

\* the edit returns: on success the id is stored and the call ends, on any
\* exception the call goes on to send a new message
card_edit(i) ==
    LET r == renders[i] IN
    /\ r.pc = "edit"
    /\ \E outcome \in EditOutcomes(r.message_id, CardKey(r.ticket_id), r.content) :
           IF outcome = "ok"
           THEN /\ chat' = [chat EXCEPT ![r.message_id] = Msg(CardKey(r.ticket_id), r.content)]
                /\ TICKET_CARD_MESSAGES' =
                       [TICKET_CARD_MESSAGES EXCEPT ![r.ticket_id] = r.message_id]
                /\ renders' = [renders EXCEPT ![i] = NoRender]
                /\ flows' = render_returns(i)
                /\ last' = RenderEvent("edit", "edited", CardKey(r.ticket_id), r.message_id)
           ELSE /\ renders' = [renders EXCEPT ![i].pc = "send", ![i].edit_failed = TRUE]
                /\ last' = RenderEvent("edit", outcome, CardKey(r.ticket_id), r.message_id)
                /\ UNCHANGED <<chat, TICKET_CARD_MESSAGES, flows>>
    /\ UNCHANGED <<search_menu_msg_id, ADMIN_SCREEN_MESSAGES>>
    /\ UNCHANGED <<handlerVars, now, schedVars, shutdownVars, banVars>>

\* the history record of a send: pre tells whether an edit was tried before
SendEvent(r, res, id) ==
    [RenderEvent("send", res, CardKey(r.ticket_id), id)
        EXCEPT !.pre = IF r.edit_failed THEN "edit_failed" ELSE "none"]

\* The send with the stored id left as it was.
card_send_keep_id(i) ==
    LET r == renders[i] IN
    /\ r.pc = "send"
    /\ Len(chat) < MaxChat
    /\ chat' = Append(chat, Msg(CardKey(r.ticket_id), r.content))
    /\ last' = SendEvent(r, "sent", Len(chat) + 1)
    /\ renders' = [renders EXCEPT ![i] = NoRender]
    /\ flows' = render_returns(i)
    /\ UNCHANGED <<TICKET_CARD_MESSAGES, search_menu_msg_id,
                   ADMIN_SCREEN_MESSAGES>>
    /\ UNCHANGED <<handlerVars, now, schedVars, shutdownVars, banVars>>

\* the send returns: the id of the new message is stored; an exception is
\* logged by the outer handler and the call ends
card_send(i) ==
    LET r == renders[i] IN
    /\ r.pc = "send"
    /\ \/ /\ Len(chat) < MaxChat
          /\ chat' = Append(chat, Msg(CardKey(r.ticket_id), r.content))
          /\ TICKET_CARD_MESSAGES' =
                 [TICKET_CARD_MESSAGES EXCEPT ![r.ticket_id] = Len(chat) + 1]
          /\ last' = SendEvent(r, "sent", Len(chat) + 1)
       \/ /\ last' = SendEvent(r, "failed", 0)
          /\ UNCHANGED <<chat, TICKET_CARD_MESSAGES>>
    /\ renders' = [renders EXCEPT ![i] = NoRender]
    /\ flows' = render_returns(i)
    /\ UNCHANGED <<search_menu_msg_id, ADMIN_SCREEN_MESSAGES>>
    /\ UNCHANGED <<handlerVars, now, schedVars, shutdownVars, banVars>>

\* the operator deletes a message of the chat
delete_message(id) ==
    /\ id \in Live
    /\ chat' = [chat EXCEPT ![id].live = FALSE]
    /\ last' = RenderEvent("delete", "deleted", chat[id].key, id)
    /\ UNCHANGED <<TICKET_CARD_MESSAGES, renders, search_menu_msg_id,
                   ADMIN_SCREEN_MESSAGES>>
    /\ UNCHANGED <<handlerVars, now, schedVars, flows, shutdownVars, banVars>>

\* 'search_ticket_start' button on the message pressed: the message is
\* edited into the search prompt; "Message is not modified" counts as done;
\* any other exception sends a new prompt
search_ticket_start(pressed) ==
    /\ pressed \in Live
    /\ \E outcome \in EditOutcomes(pressed, ScreenKey("search"), "prompt") :
           IF outcome \in {"ok", "not_modified"}
           THEN /\ chat' = [chat EXCEPT ![pressed] = Msg(ScreenKey("search"), "prompt")]
                /\ search_menu_msg_id' = pressed
                /\ state' = [state EXCEPT ![ADMIN_ID] = "search_ticket_input"]
                /\ last' = RenderEvent("search_ticket_start", outcome, ScreenKey("search"), pressed)
           ELSE \/ /\ Len(chat) < MaxChat
                   /\ chat' = Append(chat, Msg(ScreenKey("search"), "prompt"))
                   /\ search_menu_msg_id' = Len(chat) + 1
                   /\ state' = [state EXCEPT ![ADMIN_ID] = "search_ticket_input"]
                   /\ last' = RenderEvent("search_ticket_start", "sent", ScreenKey("search"),
                                          Len(chat) + 1)
                \/ /\ last' = RenderEvent("search_ticket_start", "failed", ScreenKey("search"), 0)
                   /\ UNCHANGED <<chat, search_menu_msg_id, state>>
    /\ UNCHANGED <<TICKET_CARD_MESSAGES, renders, ADMIN_SCREEN_MESSAGES>>
    /\ UNCHANGED <<ticketVars, skip_cooldown, reply_ticket_id, feedbackVars, now,
                   schedVars, flows, shutdownVars, banVars>>

\* AdminScreenRegistry.render (specification section 4.4) as admin_home falls
\* back on it: a new message shows the screen
show_admin_screen(key, content) == Append(chat, Msg(key, content))

\* 'admin_home' button on the message pressed: the message is edited into
\* the home screen; "Message is not modified" counts as done; any other
\* exception hands over to show_admin_screen
admin_home(pressed) ==
    /\ pressed \in Live
    /\ \E outcome \in EditOutcomes(pressed, ScreenKey("home"), "welcome") :
           IF outcome \in {"ok", "not_modified"}
           THEN /\ chat' = [chat EXCEPT ![pressed] = Msg(ScreenKey("home"), "welcome")]
                /\ last' = RenderEvent("admin_home", outcome, ScreenKey("home"), pressed)
           ELSE \/ /\ Len(chat) < MaxChat
                   /\ chat' = show_admin_screen(ScreenKey("home"), "welcome")
                   /\ last' = RenderEvent("admin_home", "sent", ScreenKey("home"), Len(chat) + 1)
                \/ /\ last' = RenderEvent("admin_home", "failed", ScreenKey("home"), 0)
                   /\ UNCHANGED chat
    /\ UNCHANGED <<TICKET_CARD_MESSAGES, renders, search_menu_msg_id,
                   ADMIN_SCREEN_MESSAGES>>
    /\ UNCHANGED <<handlerVars, now, schedVars, flows, shutdownVars, banVars>>

CardUpdate == \E t \in TicketIds, c \in Contents : update_ticket_card(t, c)
CardButton ==
    \E t \in TicketIds, c \in Contents, pressed \in DOMAIN chat :
        button_ticket_card(t, c, pressed)
CardEdit == \E i \in DOMAIN renders : card_edit(i)
CardSend == \E i \in DOMAIN renders : card_send(i)
DeleteMessage == \E id \in DOMAIN chat : delete_message(id)
SearchStart == \E pressed \in DOMAIN chat : search_ticket_start(pressed)
AdminHome == \E pressed \in DOMAIN chat : admin_home(pressed)

NextRender ==
    \/ CardUpdate
    \/ CardButton
    \/ CardEdit
    \/ CardSend
    \/ DeleteMessage
    \/ SearchStart
    \/ AdminHome

SpecRender == Init /\ [][NextRender]_vars

\* show_ticket_card: the ticket opened from the inbox is shown, with the
\* buttons of its status, on the screen "ticket".  The screen is rendered by
\* AdminScreenRegistry.render (specification section 4.4): the message stored
\* for the screen is edited, "content unchanged" counts as done, any other
\* failure sends a new message whose id is stored
show_ticket_card(ticket_id) ==
    LET id == ADMIN_SCREEN_MESSAGES["ticket"] IN
    /\ \E outcome \in IF id # 0 THEN EditOutcomes(id, CardKey(ticket_id), "view")
                      ELSE {"no_id"} :
           IF outcome = "ok"
           THEN /\ chat' = [chat EXCEPT ![id] = Msg(CardKey(ticket_id), "view")]
                /\ last' = RenderEvent("view", "edited", CardKey(ticket_id), id)
                /\ UNCHANGED ADMIN_SCREEN_MESSAGES
           ELSE IF outcome = "not_modified"
           THEN /\ last' = RenderEvent("view", outcome, CardKey(ticket_id), id)
                /\ UNCHANGED <<chat, ADMIN_SCREEN_MESSAGES>>
           ELSE \/ /\ Len(chat) < MaxChat
                   /\ chat' = Append(chat, Msg(CardKey(ticket_id), "view"))
                   /\ ADMIN_SCREEN_MESSAGES' =
                          [ADMIN_SCREEN_MESSAGES EXCEPT !["ticket"] = Len(chat) + 1]
                   /\ last' = RenderEvent("view", "sent", CardKey(ticket_id), Len(chat) + 1)
                \/ /\ last' = RenderEvent("view", "failed", CardKey(ticket_id), 0)
                   /\ UNCHANGED <<chat, ADMIN_SCREEN_MESSAGES>>
    /\ UNCHANGED <<TICKET_CARD_MESSAGES, renders, search_menu_msg_id>>
    /\ UNCHANGED <<handlerVars, now, schedVars, flows, shutdownVars, banVars>>

TicketView == \E t \in TicketIds : show_ticket_card(t)

\* the cards and the ticket screen
NextCards ==
    \/ CardUpdate
    \/ CardButton
    \/ CardEdit
    \/ CardSend
    \/ TicketView
    \/ AdminHome

SpecCards == Init /\ [][NextCards]_vars

----------------------------------------------------------------------------
(* The ticket search of the operator: the prompt of search_ticket_start    *)
(* and the text branch of admin_text_handler that answers it.              *)

\* what the answer shows: the not-found text, or the preview of the match
SearchResult(found) == IF found THEN "preview" ELSE "not_found"

\* home command of the operator: show_admin_screen puts up the home screen
home_handler ==
    /\ Len(chat) < MaxChat
    /\ chat' = show_admin_screen(ScreenKey("home"), "welcome")
    /\ last' = RenderEvent("home", "sent", ScreenKey("home"), Len(chat) + 1)
    /\ UNCHANGED <<TICKET_CARD_MESSAGES, renders, search_menu_msg_id,
                   ADMIN_SCREEN_MESSAGES>>
    /\ UNCHANGED <<handlerVars, now, schedVars, flows, shutdownVars, banVars>>

\* The search branch with the state kept when nothing matches.
search_ticket_input_keep_state(found) ==
    /\ state[ADMIN_ID] = "search_ticket_input"
    /\ state' = IF found THEN [state EXCEPT ![ADMIN_ID] = "idle"] ELSE state
    /\ \E outcome \in EditOutcomes(search_menu_msg_id, ScreenKey("search"),
                                   SearchResult(found)) :
           /\ outcome = "ok"
           /\ chat' = [chat EXCEPT ![search_menu_msg_id] =
                           Msg(ScreenKey("search"), SearchResult(found))]
           /\ last' = RenderEvent("search_input", "edited", ScreenKey("search"),
                                  search_menu_msg_id)
    /\ UNCHANGED <<TICKET_CARD_MESSAGES, renders, search_menu_msg_id,
                   ADMIN_SCREEN_MESSAGES>>
    /\ UNCHANGED <<ticketVars, skip_cooldown, reply_ticket_id, feedbackVars, now,
                   schedVars, flows, shutdownVars, banVars>>

\* admin_text_handler, state search_ticket_input: the state is cleared, the
\* stored message is edited to show the result; without a stored id, or
\* when the edit raises, the result is sent as a new message
search_ticket_input(found) ==
    /\ state[ADMIN_ID] = "search_ticket_input"
    /\ state' = [state EXCEPT ![ADMIN_ID] = "idle"]
    /\ \E outcome \in IF search_menu_msg_id # 0
                      THEN EditOutcomes(search_menu_msg_id, ScreenKey("search"),
                                        SearchResult(found))
                      ELSE {"no_id"} :
           IF outcome = "ok"
           THEN /\ chat' = [chat EXCEPT ![search_menu_msg_id] =
                                Msg(ScreenKey("search"), SearchResult(found))]
                /\ last' = RenderEvent("search_input", "edited", ScreenKey("search"),
                                       search_menu_msg_id)
           ELSE \/ /\ Len(chat) < MaxChat
                   /\ chat' = Append(chat, Msg(ScreenKey("search"), SearchResult(found)))
                   /\ last' = RenderEvent("search_input", "sent", ScreenKey("search"),
                                          Len(chat) + 1)
                \/ /\ last' = RenderEvent("search_input", "failed", ScreenKey("search"), 0)
                   /\ UNCHANGED chat
    /\ UNCHANGED <<TICKET_CARD_MESSAGES, renders, search_menu_msg_id,
                   ADMIN_SCREEN_MESSAGES>>
    /\ UNCHANGED <<ticketVars, skip_cooldown, reply_ticket_id, feedbackVars, now,
                   schedVars, flows, shutdownVars, banVars>>

SearchInput == \E found \in BOOLEAN : search_ticket_input(found)

NextSearch ==
    \/ home_handler
    \/ SearchStart
    \/ SearchInput
    \/ AdminHome
    \/ DeleteMessage

SpecSearch == Init /\ [][NextSearch]_vars

----------------------------------------------------------------------------
(* Lookups that fail.  Buttons stay in the chats after the record they     *)
(* name is gone (cleared tickets, a feedback store that is kept in memory  *)
(* only), so a callback can name an id that no store holds.                *)

FeedbackIds == 1..(MaxFeedbacks + 1)

\* thank_feedback: marks the record, answers None for an unknown id
thank_feedback(feedback_id) ==
    IF feedback_id \in DOMAIN feedbacks
    THEN [feedbacks EXCEPT ![feedback_id].thanked = TRUE]
    ELSE feedbacks

\* 'thank:<id>'
handle_thank_feedback(feedback_id) ==
    /\ feedbacks' = thank_feedback(feedback_id)
    /\ last' = FeedbackEvent("thank",
                             IF feedback_id \in DOMAIN feedbacks THEN "thanked" ELSE "NotFound",
                             -1)
    /\ UNCHANGED <<ticketVars, state, skip_cooldown, reply_ticket_id, last_feedback,
                   now, schedVars, flows, restVars>>

RateData == \E t \in TicketIds, r \in Ratings : rating_callback(t, r)
ThankFeedback == \E feedback_id \in FeedbackIds : handle_thank_feedback(feedback_id)

\* the user "u1" opens tickets and submits suggestions, the operator answers
UserStart == user_start_question("u1")
UserQuestion == \E text \in Texts : handle_question_text("u1", text)
UserSuggestion == user_suggestion("u1")
UserSuggestionText == handle_suggestion_text("u1")
OperatorReply == \E text \in MessageTexts : handle_admin_reply(ADMIN_ID, text)

NextLookup ==
    \/ UserStart
    \/ UserQuestion
    \/ Take
    \/ Close
    \/ Reply
    \/ OperatorReply
    \/ clear_tickets
    \/ RateData
    \/ UserSuggestion
    \/ UserSuggestionText
    \/ ThankFeedback

SpecLookup == Init /\ [][NextLookup]_vars

----------------------------------------------------------------------------
(* The ticket handlers with their awaits.  A handler in progress is a flow: *)
(* it begins with the handler's code up to the first await, and each later  *)
(* step is the return (or raise) of the call it awaits together with the    *)
(* code up to the next await.  Handlers of different updates interleave at  *)
(* these points (specification section 5).                                  *)

\* the first slot without a handler in progress, 0 when there is none
FreeFlow ==
    IF \E k \in DOMAIN flows : flows[k].pc = "idle"
    THEN CHOOSE k \in DOMAIN flows :
             /\ flows[k].pc = "idle"
             /\ \A j \in 1..(k - 1) : flows[j].pc # "idle"
    ELSE 0

NewFlow(op, pc, ticket_id, pressed) ==
    [NoFlow EXCEPT !.op = op, !.pc = pc, !.ticket_id = ticket_id, !.pressed = pressed]

\* format_ticket_card under the header of the action: what the card of a
\* ticket shows, given the store it is read from
Card(store, ticket_id, action) ==
    [action |-> action, status |-> store[ticket_id].status,
     rating |-> store[ticket_id].rating, messages |-> store[ticket_id].messages]

\* the header a handler passes
ActionOf(op) ==
    IF op = "new" THEN "new" ELSE IF op = "message" THEN "message"
    ELSE IF op = "close" THEN "closed" ELSE "working"

\* the history record of a step of a handler
FlowEvent(op, res, ticket_id) == RenderEvent(op, res, CardKey(ticket_id), 0)

\* the call of send_or_update_ticket_card by the handler in slot k: the
\* ticket is looked up and formatted before the first await of the render
render_call(k, flow, store, message_id) ==
    IF flow.ticket_id \notin DOMAIN store
    THEN /\ flows' = [flows EXCEPT ![k] = Resume(flow)]
         /\ last' = FlowEvent(flow.op, "no_ticket", flow.ticket_id)
         /\ UNCHANGED renders
    ELSE /\ send_or_update_ticket_card(flow.ticket_id,
                                       Card(store, flow.ticket_id, ActionOf(flow.op)),
                                       message_id)
         /\ flows' = [flows EXCEPT ![k] = [flow EXCEPT !.pc = "render", !.slot = FreeSlot]]

\* handle_question_text with a valid text, up to the confirmation
begin_question_text(u, text) ==
    /\ state[u] = "awaiting_question"
    /\ len(text) >= ASK_MIN_LENGTH
    /\ next_id <= MaxFlowTickets
    /\ FreeFlow # 0
    /\ tickets' = create_ticket(u, text)
    /\ next_id' = next_id + 1
    /\ state' = [state EXCEPT ![u] = "idle"]
    /\ flows' = [flows EXCEPT ![FreeFlow] = NewFlow("new", "confirm", next_id, 0)]
    /\ last' = FlowEvent("new", "created", next_id)
    /\ UNCHANGED <<rate_prompts, skip_cooldown, reply_ticket_id, feedbackVars, now,
                   schedVars, shutdownVars, banVars,
                   TICKET_CARD_MESSAGES, chat, renders, search_menu_msg_id,
                   ADMIN_SCREEN_MESSAGES>>

\* handle_ticket_message, up to the confirmation
begin_ticket_message(u, text) ==
    LET active == get_user_active_ticket(u) IN
    /\ state[u] \notin {"awaiting_question", "awaiting_suggestion", "awaiting_review",
                      "awaiting_reply"}
    /\ u # ADMIN_ID
    /\ active # 0
    /\ tickets[active].last_actor # "user"
    /\ Room
    /\ FreeFlow # 0
    /\ tickets' = add_message(active, "user", text)
    /\ flows' = [flows EXCEPT ![FreeFlow] = NewFlow("message", "confirm", active, 0)]
    /\ last' = FlowEvent("message", "appended", active)
    /\ UNCHANGED <<next_id, rate_prompts, state, skip_cooldown, reply_ticket_id,
                   feedbackVars, now, schedVars, shutdownVars, banVars,
                   TICKET_CARD_MESSAGES, chat, renders, search_menu_msg_id,
                   ADMIN_SCREEN_MESSAGES>>

\* handle_admin_reply for a ticket the store holds, up to the confirmation
begin_admin_reply(u, text) ==
    LET ticket_id == reply_ticket_id[u] IN
    /\ state[u] = "awaiting_reply"
    /\ ticket_id \in DOMAIN tickets
    /\ Room
    /\ FreeFlow # 0
    /\ tickets' = add_message(ticket_id, "support", text)
    /\ state' = [state EXCEPT ![u] = "idle"]
    /\ reply_ticket_id' = [reply_ticket_id EXCEPT ![u] = 0]
    /\ flows' = [flows EXCEPT ![FreeFlow] = NewFlow("reply", "confirm", ticket_id, 0)]
    /\ last' = FlowEvent("reply", "appended", ticket_id)
    /\ UNCHANGED <<next_id, rate_prompts, skip_cooldown, feedbackVars, now,
                   schedVars, shutdownVars, banVars,
                   TICKET_CARD_MESSAGES, chat, renders, search_menu_msg_id,
                   ADMIN_SCREEN_MESSAGES>>

\* the buttons of a card: take and close on a card that shows status new,
\* reply and close on one that shows working, none on one that shows done
HasButton(pressed, t, statuses) ==
    /\ pressed \in Live
    /\ chat[pressed].key = CardKey(t)
    /\ chat[pressed].content.status \in statuses

\* handle_take_ticket, 'take' pressed on a card of the ticket, up to the
\* notification of the user; a ticket that cannot be taken gets no render
begin_take_ticket(t, pressed) ==
    /\ HasButton(pressed, t, {"new"})
    /\ tickets' = take_ticket(t)
    /\ IF take_result(t) = "ok"
       THEN /\ FreeFlow # 0
            /\ flows' = [flows EXCEPT ![FreeFlow] = NewFlow("take", "notify", t, pressed)]
            /\ last' = FlowEvent("take", "taken", t)
       ELSE /\ last' = FlowEvent("take", take_result(t), t)
            /\ UNCHANGED flows
    /\ UNCHANGED <<next_id, rate_prompts, state, skip_cooldown, reply_ticket_id,
                   feedbackVars, now, schedVars, shutdownVars, banVars,
                   TICKET_CARD_MESSAGES, chat, renders, search_menu_msg_id,
                   ADMIN_SCREEN_MESSAGES>>

\* the id the button handlers pass and store: the stored one, or else that
\* of the message whose button was pressed
CardIdOr(t, pressed) ==
    IF TICKET_CARD_MESSAGES[t] # 0 THEN TICKET_CARD_MESSAGES[t] ELSE pressed

\* handle_close_ticket, 'close' pressed on a card of the ticket, up to the
\* first await of the render
begin_close_ticket(t, pressed) ==
    /\ HasButton(pressed, t, {"new", "working"})
    /\ t \in DOMAIN tickets
    /\ FreeFlow # 0
    /\ tickets' = close_ticket(t)
    /\ TICKET_CARD_MESSAGES' = [TICKET_CARD_MESSAGES EXCEPT ![t] = CardIdOr(t, pressed)]
    /\ render_call(FreeFlow, NewFlow("close", "render", t, pressed), close_ticket(t),
                   CardIdOr(t, pressed))
    /\ UNCHANGED <<next_id, rate_prompts, state, skip_cooldown, reply_ticket_id,
                   feedbackVars, now, schedVars, shutdownVars, banVars,
                   chat, search_menu_msg_id,
                   ADMIN_SCREEN_MESSAGES>>

\* the confirmation to the sender returns or raises.  The reply_text is not
\* inside a try: a raise ends the handler.  Otherwise the new-ticket handler
\* calls the render and the others go on to their notification.
confirmation_ends(k) ==
    LET flow == flows[k] IN
    /\ flow.pc = "confirm"
    /\ \/ /\ flows' = [flows EXCEPT ![k] = NoFlow]
          /\ last' = FlowEvent(flow.op, "confirm_raised", flow.ticket_id)
          /\ UNCHANGED renders
       \/ IF flow.op = "new"
          THEN render_call(k, flow, tickets, 0)
          ELSE /\ flows' = [flows EXCEPT ![k].pc = "notify"]
               /\ last' = FlowEvent(flow.op, "confirmed", flow.ticket_id)
               /\ UNCHANGED renders
    /\ UNCHANGED <<handlerVars, now, schedVars, shutdownVars, banVars,
                   TICKET_CARD_MESSAGES, chat, search_menu_msg_id,
                   ADMIN_SCREEN_MESSAGES>>

\* the notification of the other party returns or raises; it is inside a
\* try, a raise is logged and the handler goes on as after a return: it
\* calls the render, the take handler after storing the id it passes
notification_ends(k) ==
    LET flow == flows[k]
        t == flow.ticket_id
    IN  /\ flow.pc = "notify"
        /\ IF flow.op = "take"
           THEN /\ TICKET_CARD_MESSAGES' =
                      [TICKET_CARD_MESSAGES EXCEPT ![t] = CardIdOr(t, flow.pressed)]
                /\ render_call(k, flow, tickets, CardIdOr(t, flow.pressed))
           ELSE /\ UNCHANGED TICKET_CARD_MESSAGES
                /\ render_call(k, flow, tickets, TICKET_CARD_MESSAGES[t])
        /\ UNCHANGED <<handlerVars, now, schedVars, shutdownVars, banVars,
                       chat, search_menu_msg_id,
                   ADMIN_SCREEN_MESSAGES>>

\* handle_close_ticket after its render: the rating keyboard is sent to the
\* user inside a try
rating_prompt_ends(k) ==
    LET flow == flows[k] IN
    /\ flow.pc = "prompt"
    /\ \E sent \in BOOLEAN :
           /\ rate_prompts' = IF sent THEN rate_prompts \cup {flow.ticket_id} ELSE rate_prompts
           /\ last' = FlowEvent("close", IF sent THEN "prompted" ELSE "prompt_dropped",
                                flow.ticket_id)
    /\ flows' = [flows EXCEPT ![k] = NoFlow]
    /\ UNCHANGED <<tickets, next_id, state, skip_cooldown, reply_ticket_id, feedbackVars,
                   now, schedVars, shutdownVars, banVars, screenVars>>

UserStartFlow == next_id <= MaxFlowTickets /\ user_start_question("u1")
UserQuestionFlow == \E text \in Texts : begin_question_text("u1", text)
UserMessageFlow == \E text \in MessageTexts : begin_ticket_message("u1", text)
OperatorReplyFlow == \E text \in MessageTexts : begin_admin_reply(ADMIN_ID, text)
TakeFlow == \E t \in TicketIds, pressed \in DOMAIN chat : begin_take_ticket(t, pressed)
CloseFlow == \E t \in TicketIds, pressed \in DOMAIN chat : begin_close_ticket(t, pressed)
ConfirmationEnds == \E k \in DOMAIN flows : confirmation_ends(k)
NotificationEnds == \E k \in DOMAIN flows : notification_ends(k)
RatingPromptEnds == \E k \in DOMAIN flows : rating_prompt_ends(k)
ReplyButton ==
    \E t \in TicketIds, pressed \in DOMAIN chat :
        HasButton(pressed, t, {"working"}) /\ handle_reply_ticket(ADMIN_ID, t)
UserRate == \E t \in TicketIds : handle_rating(t, "good")

NextFlow ==
    \/ UserStartFlow
    \/ UserQuestionFlow
    \/ UserMessageFlow
    \/ ReplyButton
    \/ OperatorReplyFlow
    \/ TakeFlow
    \/ CloseFlow
    \/ ConfirmationEnds
    \/ NotificationEnds
    \/ RatingPromptEnds
    \/ CardEdit
    \/ CardSend
    \/ UserRate

SpecFlow == Init /\ [][NextFlow]_vars

----------------------------------------------------------------------------
(* The entry points that receive the events of every user: the free-text   *)
(* handler and the media handler (handlers/user.py) and the callback       *)
(* handler (handlers/callbacks.py).  Each event has a sender; the handlers *)
(* decide by the sender where the code does.                               *)

\* the numeric id of a user, as the operator types it into the ban dialogue
UserId(u) == IF u = ADMIN_ID THEN 10 ELSE 1
\* BanRegistry.isBanned(userId)
is_banned(u) == UserId(u) \in DOMAIN bans

ENABLE_MEDIA_FROM_USERS == TRUE
MediaText == "media"

\* an event the handler answers, or drops, without writing anything
Ignored(op, u, res) ==
    /\ last' = Event(op, u, 0, res)
    /\ UNCHANGED <<handlerVars, now, schedVars, flows, restVars>>

\* the texts of one character the operator sends as a user id
ShortIdTexts == {text \in IdTexts : Len(text) = 1}

\* admin_text_handler: the branch of the operator's state
admin_text_handler ==
    IF state[ADMIN_ID] = "search_ticket_input" THEN SearchInput
    ELSE IF state[ADMIN_ID] = "awaiting_ban_user_id"
         THEN \E text \in ShortIdTexts : handle_ban_user_id(text)
    ELSE IF state[ADMIN_ID] = "awaiting_ban_reason" THEN BanReason
    ELSE IF state[ADMIN_ID] = "awaiting_unban_user_id"
         THEN \E text \in ShortIdTexts : handle_unban_user_id(text)
    ELSE Ignored("text", ADMIN_ID, "ignored")

\* The free-text handler with the ban test made after the routing by state.
text_message_handler_routes_first(u) ==
    IF state[u] = "awaiting_question" THEN \E text \in Texts : handle_question_text(u, text)
    ELSE IF state[u] = "awaiting_suggestion" THEN handle_suggestion_text(u)
    ELSE IF state[u] = "awaiting_review" THEN handle_review_text(u)
    ELSE IF state[u] = "awaiting_reply"
         THEN \E text \in MessageTexts : handle_admin_reply(u, text)
    ELSE IF is_banned(u) THEN Ignored("text", u, "banned")
    ELSE IF u = ADMIN_ID THEN admin_text_handler
    ELSE \E text \in MessageTexts : handle_ticket_message(u, text)

\* text_message_handler: the ban test, the routing by the sender's state, the
\* operator's texts, then the sender's active ticket
text_message_handler(u) ==
    IF is_banned(u) THEN Ignored("text", u, "banned")
    ELSE IF state[u] = "awaiting_question"
         THEN \E text \in Texts : handle_question_text(u, text)
    ELSE IF state[u] = "awaiting_suggestion" THEN handle_suggestion_text(u)
    ELSE IF state[u] = "awaiting_review" THEN handle_review_text(u)
    ELSE IF state[u] = "awaiting_reply"
         THEN \E text \in MessageTexts : handle_admin_reply(u, text)
    ELSE IF u = ADMIN_ID THEN admin_text_handler
    ELSE \E text \in MessageTexts : handle_ticket_message(u, text)

\* The media of a user appended whoever wrote last.
media_handler_no_wait(u) ==
    LET ticket_id == reply_ticket_id[u]
        active == get_user_active_ticket(u)
    IN  IF is_banned(u) THEN Ignored("media", u, "banned")
        ELSE IF u # ADMIN_ID /\ ~ENABLE_MEDIA_FROM_USERS
             THEN Ignored("media", u, "media_not_allowed")
        ELSE IF state[u] = "awaiting_reply"
             THEN IF ticket_id # 0 /\ ticket_id \in DOMAIN tickets
                  THEN /\ Room
                       /\ tickets' = add_message(ticket_id, "support", MediaText)
                       /\ state' = [state EXCEPT ![u] = "idle"]
                       /\ reply_ticket_id' = [reply_ticket_id EXCEPT ![u] = 0]
                       /\ last' = Event("media", u, ticket_id, "support")
                       /\ UNCHANGED <<next_id, rate_prompts, skip_cooldown, feedbackVars,
                                      now, schedVars, flows, restVars>>
                  ELSE Ignored("media", u, "no_ticket")
        ELSE IF active = 0 THEN Ignored("media", u, "no_active")
        ELSE /\ Room
             /\ tickets' = add_message(active, "user", MediaText)
             /\ last' = Event("media", u, active, "user")
             /\ UNCHANGED <<next_id, rate_prompts, state, skip_cooldown,
                            reply_ticket_id, feedbackVars, now, schedVars, flows,
                            restVars>>

\* media_handler: the ban test, the switch for media of users, the operator's
\* reply by media, then the sender's active ticket
media_handler(u) ==
    LET ticket_id == reply_ticket_id[u]
        active == get_user_active_ticket(u)
    IN  IF is_banned(u) THEN Ignored("media", u, "banned")
        ELSE IF u # ADMIN_ID /\ ~ENABLE_MEDIA_FROM_USERS
             THEN Ignored("media", u, "media_not_allowed")
        ELSE IF state[u] = "awaiting_reply"
             THEN IF ticket_id # 0 /\ ticket_id \in DOMAIN tickets
                  THEN /\ Room
                       /\ tickets' = add_message(ticket_id, "support", MediaText)
                       /\ state' = [state EXCEPT ![u] = "idle"]
                       /\ reply_ticket_id' = [reply_ticket_id EXCEPT ![u] = 0]
                       /\ last' = Event("media", u, ticket_id, "support")
                       /\ UNCHANGED <<next_id, rate_prompts, skip_cooldown, feedbackVars,
                                      now, schedVars, flows, restVars>>
                  ELSE Ignored("media", u, "no_ticket")
        ELSE IF active = 0 THEN Ignored("media", u, "no_active")
        ELSE IF tickets[active].last_actor = "user" THEN Ignored("media", u, "wait")
        ELSE /\ Room
             /\ tickets' = add_message(active, "user", MediaText)
             /\ last' = Event("media", u, active, "user")
             /\ UNCHANGED <<next_id, rate_prompts, state, skip_cooldown,
                            reply_ticket_id, feedbackVars, now, schedVars, flows,
                            restVars>>

\* the callback data of the buttons: a command and, for the buttons of a
\* ticket card, the ticket id
CallbackData ==
    {[cmd |-> c, id |-> 0] : c \in {"user_start_question", "user_suggestion",
                                    "after_rate_suggestion", "ban_user",
                                    "unban_user", "clear_tickets"}}
    \cup {[cmd |-> c, id |-> t] : c \in {"take", "close", "reply"}, t \in TicketIds}

\* callback_handler: the routing by the data; the sender is read for the
\* language and for the user data the branch writes
callback_handler(u, data) ==
    IF data.cmd = "after_rate_suggestion" THEN after_rate_suggestion(u)
    ELSE IF data.cmd = "user_start_question" THEN user_start_question(u)
    ELSE IF data.cmd = "user_suggestion" THEN user_suggestion(u)
    ELSE IF data.cmd = "ban_user" THEN ban_user_button(u)
    ELSE IF data.cmd = "unban_user" THEN unban_user_button(u)
    ELSE IF data.cmd = "clear_tickets" THEN clear_tickets
    ELSE IF data.cmd = "take" THEN handle_take_ticket(data.id)
    ELSE IF data.cmd = "close" THEN handle_close_ticket(data.id)
    ELSE handle_reply_ticket(u, data.id)

\* one ticket is created in this specification
TextMessage ==
    \E u \in Users :
        /\ state[u] = "awaiting_question" => next_id <= MaxFlowTickets
        /\ text_message_handler(u)
Media == \E u \in Users : media_handler(u)
\* the buttons of the operator's screens, pressed by anybody, and the button
\* of the user menu that opens a question, pressed by the user
OperatorCommands == {"ban_user", "unban_user", "clear_tickets", "take", "close", "reply"}
Callback ==
    \E u \in Users, data \in CallbackData :
        /\ \/ data.cmd \in OperatorCommands
           \/ data.cmd = "user_start_question" /\ u # ADMIN_ID
        /\ callback_handler(u, data)

\* the buttons of the user menu and of the prompt after a rating, pressed by
\* the user, and the ban button pressed by the operator
UserCallback ==
    \E u \in Users, data \in CallbackData :
        /\ \/ data.cmd \notin OperatorCommands /\ u # ADMIN_ID
           \/ data.cmd = "ban_user" /\ u = ADMIN_ID
        /\ callback_handler(u, data)

NextDispatch ==
    \/ TextMessage
    \/ Media
    \/ Callback

SpecDispatch == Init /\ [][NextDispatch]_vars

NextBanned ==
    \/ TextMessage
    \/ Media
    \/ UserCallback

SpecBanned == Init /\ [][NextBanned]_vars

\* the three dialogues of the operator that keep something for the text
\* that follows: the reply, the ban and the search, next to the messages of
\* the users
\* the buttons that lead the operator into the reply and the ban dialogues
DialogueCommands == {"take", "reply", "ban_user"}
OperatorCallback ==
    \E data \in CallbackData :
        data.cmd \in DialogueCommands /\ callback_handler(ADMIN_ID, data)

NextPayload ==
    \/ TextMessage
    \/ Media
    \/ UserStart
    \/ OperatorCallback
    \/ home_handler
    \/ SearchStart

SpecPayload == Init /\ [][NextPayload]_vars

----------------------------------------------------------------------------
(* Properties of the ticket flows *)

Rank(s) == CASE s = "new" -> 0 [] s = "working" -> 1 [] s = "done" -> 2

\* C1: in every reachable state each user has at most one ticket whose status
\* is not done, so getActiveForUser has at most one candidate.
C1_SingleActiveTicket == \A u \in Users : Cardinality(ActiveOf(u)) <= 1

\* a user holding an active ticket reached ticket creation again (through the
\* button, which does not look for an active ticket) and was refused
C1_Witness ==
    /\ last.op = "question" /\ last.res = "AlreadyActive"
    /\ \E u \in Users : Cardinality(ActiveOf(u)) = 1

\* C2: take on a new ticket answers with the ticket and makes it working; take
\* on a ticket that is no longer new answers InvalidTransition and changes
\* nothing of the store.
C2_TakeOnce ==
    [][\A t \in TicketIds :
          handle_take_ticket(t) /\ t \in DOMAIN tickets =>
              IF tickets[t].status = "new"
              THEN /\ last'.res = "ok"
                   /\ tickets' = [tickets EXCEPT ![t].status = "working"]
              ELSE /\ last'.res = "InvalidTransition"
                   /\ tickets' = tickets]_vars

\* a second take hit a ticket that was already working
C2_Witness ==
    last.op = "take" /\ last.res = "InvalidTransition" /\ last.pre = "working"

\* C3: close succeeds on a new (never taken) ticket and on a working ticket,
\* and the ticket is done afterwards.
C3_CloseFromNewOrWorking ==
    [][\A t \in TicketIds :
          handle_close_ticket(t) /\ StatusOf(t) \in {"new", "working"} =>
              /\ last'.res = "ok"
              /\ tickets'[t].status = "done"
              /\ \A o \in DOMAIN tickets \ {t} : tickets'[o] = tickets[o]]_vars

\* a ticket was closed while still new
C3_Witness ==
    /\ last.op = "close" /\ last.res = "ok" /\ last.pre = "new"
    /\ \E t \in DOMAIN tickets : tickets[t].status = "done"

\* C4: no step moves a ticket's status backward in new < working < done; a
\* done ticket stays done.
C4_StatusMonotonic ==
    [][\A t \in DOMAIN tickets \cap DOMAIN tickets' :
          Rank(tickets'[t].status) >= Rank(tickets[t].status)]_vars

\* an operation (a support reply) was applied to a ticket that was done
C4_Witness ==
    /\ last.op = "reply_text" /\ last.res = "support" /\ last.pre = "done"
    /\ \E t \in DOMAIN tickets : tickets[t].status = "done" /\ Len(tickets[t].messages) > 1

\* C5: a step changes a ticket's messages only by appending one message at the
\* end, stamped no earlier than the message before it, and last_actor is then
\* the sender of that message; every addMessage call of a handler is such a
\* step, with the sender the handler passed.
Appended(t) ==
    LET m == tickets[t].messages
        n == tickets'[t].messages
    IN  /\ Len(n) = Len(m) + 1
        /\ SubSeq(n, 1, Len(m)) = m
        /\ n[Len(n)].timestamp >= m[Len(m)].timestamp
        /\ tickets'[t].last_actor = n[Len(n)].sender

C5_MessagesAppendOnly ==
    [][/\ \A t \in DOMAIN tickets \cap DOMAIN tickets' :
             tickets'[t].messages = tickets[t].messages \/ Appended(t)
       /\ (TicketText \/ ReplyText) /\ last'.res \in {"user", "support"} =>
             \E t \in DOMAIN tickets :
                 /\ Appended(t)
                 /\ tickets'[t].last_actor = last'.res
                 /\ \A o \in DOMAIN tickets \ {t} : tickets'[o] = tickets[o]]_vars

\* two addMessage calls (support, then user) followed the creation of a ticket,
\* at different times
C5_Witness ==
    /\ last.op = "text" /\ last.res = "user"
    /\ \E t \in DOMAIN tickets :
          LET m == tickets[t].messages
          IN  /\ Len(m) = 3
              /\ m[2].sender = "support" /\ m[3].sender = "user"
              /\ m[3].timestamp > m[1].timestamp

----------------------------------------------------------------------------
(* Properties of the feedback cooldown *)

CeilDiv(a, b) == (a + b - 1) \div b

Keys == Users \X Kinds

\* C6: a check is allowed when there is no record or the elapsed time is at
\* least the window, and otherwise refused with ceil((window - elapsed) / hour)
\* whole hours remaining.
C6_CooldownCheck ==
    [][\A u \in Users, kind \in Kinds :
          feedback_button(u, kind) =>
              IF last_feedback[<<u, kind>>] = -1 \/ Elapsed(u, kind) >= Need
              THEN last'.res = "prompt"
              ELSE /\ last'.res = "cooldown"
                   /\ last'.hours = CeilDiv(Need - Elapsed(u, kind), Hour)]_vars

\* C6, the allow / refuse decision alone and the two cases of a one-hour
\* window: 3599 s elapsed is refused with 1 hour remaining, 3600 s is allowed.
C6_CooldownBoundary ==
    [][\A u \in Users, kind \in Kinds :
          feedback_button(u, kind) /\ last_feedback[<<u, kind>>] # -1 =>
              /\ (last'.res = "prompt") = (Elapsed(u, kind) >= Need)
              /\ Elapsed(u, kind) = Need - TicksPerSecond =>
                     last'.res = "cooldown" /\ last'.hours = 1
              /\ Elapsed(u, kind) = Need => last'.res = "prompt"]_vars

C8_SkipOnce ==
    [][\A u \in Users :
          /\ \A kind \in Kinds :
                handle_feedback_text(u, kind) /\ skip_cooldown[u] =>
                    /\ last'.res \in {"skipped", "skipped_lost"}
                    /\ state'[u] = "idle"
                    /\ ~skip_cooldown'[u]
                    /\ last_feedback' = last_feedback
          /\ \A kind \in Kinds :
                handle_feedback_text(u, kind) /\ ~skip_cooldown[u] /\ ~can_send(u, kind) =>
                    /\ last'.res = "cooldown"
                    /\ feedbacks' = feedbacks /\ state' = state
          /\ skip_cooldown'[u] /\ ~skip_cooldown[u] =>
                after_rate_suggestion(u) \/ after_rate_review(u)]_vars

\* a submission skipped the check while its cooldown was running, and the flag is down
C8_Witness ==
    /\ last.op = "feedback_text" /\ last.res = "skipped"
    /\ Len(feedbacks) > 0
    /\ LET f == feedbacks[Len(feedbacks)]
       IN  /\ ~can_send(f.user_id, f.type)
           /\ ~skip_cooldown[f.user_id]

----------------------------------------------------------------------------
(* Properties of the scheduler *)

\* C9: when a run of a job ends, by return or by raise, the job's next_run is
\* the time that run started plus the job's interval, for every due job of a
\* tick and whatever time the jobs before it took.
C9_RescheduledFromRunStart ==
    [][\A i \in DOMAIN tasks :
          (job_returns(i) \/ job_raises(i)) /\ tasks[i].live =>
              jobs'[tasks[i].cur].next_run
                  = tasks[i].started + jobs[tasks[i].cur].interval]_vars

\* C10: when a job body raises, the job is rescheduled, the loop does not end,
\* and the next job that is due in the tick is started.
C10_FailureContained ==
    [][\A i \in DOMAIN tasks :
          job_raises(i) =>
              /\ tasks'[i].pc # "done"
              /\ tasks[i].live =>
                     jobs'[tasks[i].cur].next_run
                         = tasks[i].tick + jobs[tasks[i].cur].interval
              /\ LET q == NextDue(jobs', tasks[i].pos, tasks[i].tick)
                 IN  q # 0 => tasks'[i].pc = "body" /\ tasks'[i].cur = entries[q]]_vars

\* the loop tasks that are inside a job body
Executing == {i \in DOMAIN tasks : tasks[i].pc = "body"}

\* C11: at most one job body has started and not yet finished, in every
\* reachable state, whatever calls of start, stop, add_job and remove_job
\* were interleaved with the loop.
C11_OneBodyAtATime == Cardinality(Executing) <= 1

\* the scheduler was started again while stop() was still awaiting the first
\* loop, and the second loop is inside a job body
C11_Witness ==
    /\ Len(tasks) = 2
    /\ stopping.pc = "await"
    /\ tasks[1].exit = "cancelled"
    /\ tasks[2].pc = "body"

\* C12: once a call of stop() has returned, and until the scheduler's API is
\* called again, no job body is started or still in progress.
C12_NoJobAfterStop ==
    last.op = "stop" /\ last.res = "returned" => Executing = {}

\* the jobs that were due before the tick of time t began and have not run since
Overdue(js, t) == {j \in JobIds : js[j] # NoJob /\ js[j].next_run < t}

\* C13: add_job sets next_run to the time of the registration, and the first
\* tick that begins after it runs the job: when the loop leaves the last job
\* body of a tick, no registered job that was due before the tick began is
\* left without having run.
C13_RunsOnFirstTick ==
    [][/\ \A j \in JobIds :
             add_job(j, IntervalOf(j)) => jobs'[j].next_run = now
       /\ \A i \in DOMAIN tasks :
             /\ tasks[i].pc = "body" /\ ~tasks[i].cancel
             /\ tasks'[i].pc \in {"sleep", "done"}
             => Overdue(jobs', tasks[i].tick) = {}]_vars

\* the same for the ticks the loop completes: a loop that goes to sleep leaves
\* no job that was due before the tick began
RunsOnFirstTickCompleted ==
    [][/\ \A j \in JobIds :
             add_job(j, IntervalOf(j)) => jobs'[j].next_run = now
       /\ \A i \in DOMAIN tasks :
             tasks[i].pc # "done" /\ tasks'[i].pc = "sleep" /\ tasks'[i] # tasks[i]
             => Overdue(jobs', tasks'[i].tick) = {}]_vars

(* C14: on a shutdown signal the teardown runs in order: no stop of the    *)
(* transport (the polling stop, the application stop) is called before a   *)
(* save of the data was attempted, and no save is attempted before a stop  *)
(* of the scheduler was attempted.                                         *)
Before(i, what) == \E j \in 1..(i - 1) : trace[j].what = what
C14_ShutdownOrder ==
    \A i \in DOMAIN trace :
        /\ trace[i].what \in TransportStops => Before(i, "save")
        /\ trace[i].what = "save" => Before(i, "scheduler_stop")
C14_Witness ==
    /\ main_pc = "exited"
    /\ Len(shutdown_tasks) = 2
    /\ shutdown_tasks[2] = "cancelled"
    /\ \E i \in DOMAIN trace : trace[i].what = "application_stop"
    /\ \E i \in DOMAIN trace : trace[i].what = "save" /\ ~trace[i].ok

(* C15: a rejected input keeps the conversation state and changes no       *)
(* store: a question shorter than the minimum creates no ticket and leaves *)
(* the user in awaiting_question with the re-prompt; a text that is not a  *)
(* number, sent as the id to ban or to unban, leaves the ban registry and  *)
(* the state as they were.                                                 *)
StoresUnchanged ==
    /\ UNCHANGED <<tickets, next_id, feedbacks, last_feedback, bans, ban_user_id>>
C15_RejectionKeepsState ==
    [][/\ \A u \in Users, text \in Texts :
              handle_question_text(u, text) /\ len(text) < ASK_MIN_LENGTH
              => /\ StoresUnchanged
                 /\ state' = state
                 /\ state'[u] = "awaiting_question"
                 /\ last'.res = "min_length"
       /\ \A text \in IdTexts :
              handle_ban_user_id(text) /\ int(strip(text)) = ValueError
              => /\ StoresUnchanged
                 /\ state' = state
                 /\ last'.res = "invalid_id_format"
       /\ \A text \in IdTexts :
              handle_unban_user_id(text) /\ int(strip(text)) = ValueError
              => /\ StoresUnchanged
                 /\ state' = state
                 /\ last'.res = "invalid_id_format"]_vars
C15_Witness ==
    /\ last.op = "ban_user_id"
    /\ last.res = "invalid_id_format"
    /\ state[ADMIN_ID] = "awaiting_ban_user_id"
    /\ state["u1"] = "awaiting_question"
    /\ DOMAIN bans # {}

(* C16: in awaiting_ban_reason, when the target is already banned with a   *)
(* reason, a new reason leaves the stored reason unchanged, the stored     *)
(* reason is the one reported, and the operator's state becomes idle.      *)
C16_RebanGuard ==
    [][\A text \in Reasons :
           handle_ban_reason(text) /\ ban_user_id # <<>> /\ ReasonOf(stored_user_id) # None
           => /\ bans' = bans
              /\ last'.reason = ReasonOf(stored_user_id)
              /\ state'[ADMIN_ID] = "idle"]_vars
(* What holds of the re-ban: the registry is never changed and the stored  *)
(* reason is the one put in the report; the state becomes idle when the    *)
(* report was delivered.                                                   *)
RebanGuardDelivered ==
    [][\A text \in Reasons :
           handle_ban_reason(text) /\ ban_user_id # <<>> /\ ReasonOf(stored_user_id) # None
           => /\ bans' = bans
              /\ last'.reason = ReasonOf(stored_user_id)
              /\ last'.res = "user_already_banned" => state'[ADMIN_ID] = "idle"]_vars

(* C17: in awaiting_unban_user_id, an id that is not banned is reported,   *)
(* the registry stays as it was and the state becomes idle; an id that is  *)
(* banned is removed from the registry and the state becomes idle.         *)
C17_Unban ==
    [][\A text \in IdTexts :
           handle_unban_user_id(text) /\ int(strip(text)) # ValueError
           => /\ state'[ADMIN_ID] = "idle"
              /\ IF int(strip(text)) \in DOMAIN bans
                 THEN bans' = unban_user(int(strip(text)))
                 ELSE bans' = bans]_vars
(* What holds of the unban: the registry part in every case, the state     *)
(* part when the target was banned or the report was delivered.            *)
UnbanDelivered ==
    [][\A text \in IdTexts :
           handle_unban_user_id(text) /\ int(strip(text)) # ValueError
           => /\ last'.res # "transport_error" => state'[ADMIN_ID] = "idle"
              /\ int(strip(text)) \notin DOMAIN bans'
              /\ IF int(strip(text)) \in DOMAIN bans
                 THEN bans' = unban_user(int(strip(text))) /\ last'.res = "user_unbanned"
                 ELSE bans' = bans]_vars

(* C18: a render for a key tries the edit of the stored message first;     *)
(* when the edit fails it sends a new message and stores the id of the new *)
(* message over the old one.  One id at most is tracked per key, and when  *)
(* a render completes successfully the tracked id of the key is the id of  *)
(* the message that now shows the rendered content.                        *)
Completes(i, res) ==
    /\ renders[i].pc # "idle"
    /\ renders'[i].pc = "idle"
    /\ last'.res = res
Shows(id, ticket_id, content) ==
    /\ id \in DOMAIN chat'
    /\ chat'[id] = Msg(CardKey(ticket_id), content)
C18_EditThenFallback ==
    [][/\ TICKET_CARD_MESSAGES' \in [TicketIds -> 0..MaxChat]
       /\ \A t \in TicketIds, c \in Contents :
              update_ticket_card(t, c) /\ TICKET_CARD_MESSAGES[t] # 0
              => /\ renders'[FreeSlot].pc = "edit"
                 /\ renders'[FreeSlot].message_id = TICKET_CARD_MESSAGES[t]
       /\ \A t \in TicketIds, c \in Contents, pressed \in DOMAIN chat :
              button_ticket_card(t, c, pressed)
              => /\ renders'[FreeSlot].pc = "edit"
                 /\ renders'[FreeSlot].message_id = TICKET_CARD_MESSAGES'[t]
       /\ \A i \in DOMAIN renders :
              /\ renders'[i].pc = "send" /\ renders[i].pc # "send"
                 => renders'[i].message_id = 0 \/ renders[i].pc = "edit"
              /\ Completes(i, "edited")
                 => /\ TICKET_CARD_MESSAGES'[renders[i].ticket_id] = renders[i].message_id
                    /\ Shows(renders[i].message_id, renders[i].ticket_id, renders[i].content)
              /\ Completes(i, "sent")
                 => /\ TICKET_CARD_MESSAGES'[renders[i].ticket_id] = Len(chat')
                    /\ Len(chat') = Len(chat) + 1
                    /\ Shows(Len(chat'), renders[i].ticket_id, renders[i].content)]_vars
C18_Witness ==
    /\ last.op = "send"
    /\ last.res = "sent"
    /\ last.pre = "edit_failed"
    /\ Len(chat) = 2
    /\ chat[1].key = last.key
    /\ chat[1].live
    /\ TICKET_CARD_MESSAGES[last.key.ticket_id] = 2

(* C19: an edit that fails only because the content is unchanged counts as *)
(* a success: no new message is sent and the stored id is kept.  This is   *)
(* so for the ticket cards and for the search and home screens.            *)
C19_UnchangedIsSuccess ==
    [][/\ \A i \in DOMAIN renders :
              card_edit(i) /\ last'.res = "not_modified"
              => /\ renders'[i].pc = "idle"
                 /\ UNCHANGED <<chat, TICKET_CARD_MESSAGES>>
       /\ \A pressed \in DOMAIN chat :
              search_ticket_start(pressed) /\ last'.res = "not_modified"
              => /\ chat' = chat
                 /\ search_menu_msg_id' = pressed
       /\ \A pressed \in DOMAIN chat :
              admin_home(pressed) /\ last'.res = "not_modified"
              => chat' = chat]_vars
(* What holds of the unchanged content: the search and home screens take   *)
(* it as a success.                                                        *)
UnchangedScreenIsSuccess ==
    [][/\ \A pressed \in DOMAIN chat :
              search_ticket_start(pressed) /\ last'.res = "not_modified"
              => /\ chat' = chat
                 /\ search_menu_msg_id' = pressed
                 /\ state'[ADMIN_ID] = "search_ticket_input"
       /\ \A pressed \in DOMAIN chat :
              admin_home(pressed) /\ last'.res = "not_modified"
              => chat' = chat]_vars

(* C20: each ticket card is rendered by one live message of the operator's *)
(* chat at most, at any time and after any sequence of renders, fallback   *)
(* sends included.                                                         *)
LiveCards(ticket_id) == {id \in Live : chat[id].key = CardKey(ticket_id)}
C20_OneLiveMessage == \A t \in TicketIds : Cardinality(LiveCards(t)) <= 1

(* C26: create is never invoked for a user who holds a non-done ticket:    *)
(* every path to the creation (the ask command or the 'user_start_question' *)
(* button, then a valid question text) checks for an active ticket first.  *)
C26_CreateChecked ==
    [][\A u \in Users, text \in Texts :
           handle_question_text(u, text) /\ len(text) >= ASK_MIN_LENGTH
           => ActiveOf(u) = {}]_vars
(* What holds of the paths: whoever enters awaiting_question by the ask    *)
(* command holds no active ticket at that moment.                          *)
AskChecked ==
    [][\A u \in Users :
           ask_question_handler(u) /\ state'[u] = "awaiting_question" /\ state[u] # "awaiting_question"
           => ActiveOf(u) = {}]_vars

C23_ClearActive ==
    [][clear_tickets
       => /\ DOMAIN tickets' = {t \in DOMAIN tickets : tickets[t].status = "done"}
          /\ \A t \in DOMAIN tickets' : tickets'[t] = tickets[t]
          /\ last'.hours = Cardinality({t \in DOMAIN tickets : tickets[t].status # "done"})
          /\ \A u \in Users : ActiveOf(u)' = {}]_vars
C23_Witness ==
    /\ last.op = "clear"
    /\ last.hours >= 1
    /\ \E t \in DOMAIN tickets : tickets[t].status = "done" /\ tickets[t].rating # "none"

(* C24: an operation on an id that no store holds (take, close, rate or    *)
(* support reply on an unknown ticket id, thank on an unknown feedback id) *)
(* answers not-found and leaves the ticket store, the feedback store, the  *)
(* cooldown records and the conversation states as they were.              *)
NothingMutated ==
    UNCHANGED <<tickets, next_id, feedbacks, last_feedback, skip_cooldown, state,
                reply_ticket_id>>
C24_NotFoundMutatesNothing ==
    [][/\ \A t \in TicketIds :
              handle_take_ticket(t) /\ t \notin DOMAIN tickets
              => last'.res = "NotFound" /\ NothingMutated
       /\ \A t \in TicketIds :
              handle_close_ticket(t) /\ t \notin DOMAIN tickets
              => last'.res = "NotFound" /\ NothingMutated /\ rate_prompts' = rate_prompts
       /\ \A t \in TicketIds, r \in Ratings :
              rating_callback(t, r) /\ t \notin DOMAIN tickets
              => last'.res = "NotFound" /\ NothingMutated
       /\ \A u \in Users, text \in MessageTexts :
              handle_admin_reply(u, text) /\ reply_ticket_id[u] # 0
                  /\ reply_ticket_id[u] \notin DOMAIN tickets
              => last'.res = "NotFound" /\ NothingMutated
       /\ \A feedback_id \in FeedbackIds :
              handle_thank_feedback(feedback_id) /\ feedback_id \notin DOMAIN feedbacks
              => last'.res = "NotFound" /\ NothingMutated]_vars
\* a support reply whose ticket was cleared after the reply button was pressed
C24_Witness ==
    /\ last.op = "reply_text"
    /\ last.res = "NotFound"
    /\ state[ADMIN_ID] = "awaiting_reply"
    /\ reply_ticket_id[ADMIN_ID] \notin DOMAIN tickets
\* a thank on an id the feedback store does not hold, a record being held
ThankNotFound ==
    /\ last.op = "thank"
    /\ last.res = "NotFound"
    /\ feedbacks # <<>>

(* C27: fixed-delay scheduling: a job is rescheduled one interval after    *)
(* its completion, so a run of a job starts at least one interval after    *)
(* the completion of the job's previous run.                               *)
C27_FixedDelay ==
    \A i \in DOMAIN tasks :
        (tasks[i].pc = "body" /\ tasks[i].live /\ jobs[tasks[i].cur].completed # -1)
        => tasks[i].started >= jobs[tasks[i].cur].completed + jobs[tasks[i].cur].interval
\* what the loop does keep: a run starts at least one interval after the tick
\* in which the previous run of the job was started
FixedDelayFromTick ==
    \A i \in DOMAIN tasks :
        (tasks[i].pc = "body" /\ tasks[i].live /\ jobs[tasks[i].cur].last_run # -1)
        => tasks[i].started >= jobs[tasks[i].cur].last_run + jobs[tasks[i].cur].interval

(* C30: after a shutdown signal the stop event is eventually set and the   *)
(* process goes on to stop the transport (the polling and the              *)
(* application), also when the stop of the scheduler, the shutdown alert   *)
(* or the save raised: the error is logged and does not block the exit.    *)
Called(what) == \E i \in DOMAIN trace : trace[i].what = what
C30_ShutdownCompletes ==
    (shutdown_tasks # <<>>)
        ~> (stop_event /\ Called("updater_stop") /\ Called("application_stop"))
C30_Witness ==
    /\ Called("application_stop")
    /\ stop_event
    /\ Called("scheduler_stop_failed")
    /\ Called("alert_failed")
    /\ \E i \in DOMAIN trace : trace[i].what = "save" /\ ~trace[i].ok
    /\ Len(shutdown_tasks) = 1

(* C21: after each mutation of a ticket (creation, take, user message,     *)
(* support reply, close) the handler invokes a render of the ticket's      *)
(* card, and the render reads the status and the messages as they are      *)
(* after the mutation.                                                     *)
ReadsCurrent(k) ==
    LET flow == flows'[k] IN
    /\ renders'[flow.slot].ticket_id = flow.ticket_id
    /\ renders'[flow.slot].content.status = tickets'[flow.ticket_id].status
    /\ renders'[flow.slot].content.messages = tickets'[flow.ticket_id].messages
C21_RenderAfterMutation ==
    [][/\ \A k \in DOMAIN flows :
              (flows[k].pc \in {"confirm", "notify"} /\ flows'[k] # flows[k])
              => /\ flows'[k].pc \in {"notify", "render"}
                 /\ flows'[k].pc = "render" => ReadsCurrent(k)
       /\ \A t \in TicketIds, pressed \in DOMAIN chat :
              begin_close_ticket(t, pressed)
              => \E k \in DOMAIN flows :
                     /\ flows[k].pc = "idle"
                     /\ flows'[k].pc = "render"
                     /\ ReadsCurrent(k)]_vars
\* what holds: a render that is called reads the ticket as it is at the call
RenderReadsCurrent ==
    [][\A k \in DOMAIN flows :
           (flows[k].pc # "render" /\ flows'[k].pc = "render") => ReadsCurrent(k)]_vars

(* C29: a transport failure of a one-shot notification (the confirmation   *)
(* to the sender, the notification of the other party, the rating prompt)  *)
(* is logged and dropped: the mutations made are kept and the handler goes *)
(* on to its remaining steps, the render of the card among them.           *)
C29_NotificationDropped ==
    [][\A k \in DOMAIN flows :
           /\ (confirmation_ends(k) \/ notification_ends(k))
              => /\ tickets' = tickets
                 /\ flows'[k].pc \in {"notify", "render"}
           /\ rating_prompt_ends(k) => tickets' = tickets]_vars
\* what holds: the sends that are inside a try
ProtectedDropped ==
    [][\A k \in DOMAIN flows :
           /\ notification_ends(k) => (tickets' = tickets /\ flows'[k].pc = "render")
           /\ rating_prompt_ends(k) => (tickets' = tickets /\ flows'[k] = NoFlow)
           /\ confirmation_ends(k) => tickets' = tickets]_vars

(* C22: the scenario of a ticket.  A valid question of a user without an   *)
(* active ticket creates a ticket with status new and one message of the   *)
(* user, and the id of the card message that is sent for it is recorded;   *)
(* take sets working; the reply of the operator appends a message of       *)
(* support and sets last_actor to support; close sets done and dispatches  *)
(* the rating prompt; the rating 'good' of the user is stored.             *)
C22_Scenario ==
    [][/\ \A u \in Users, text \in Texts :
              begin_question_text(u, text) /\ ActiveOf(u) = {}
              => /\ tickets'[next_id].status = "new"
                 /\ tickets'[next_id].user_id = u
                 /\ Len(tickets'[next_id].messages) = 1
                 /\ tickets'[next_id].messages[1].sender = "user"
       /\ \A i \in DOMAIN renders :
              (card_send(i) /\ last'.res = "sent")
              => /\ TICKET_CARD_MESSAGES'[renders[i].ticket_id] = Len(chat')
                 /\ Len(chat') = Len(chat) + 1
                 /\ chat'[Len(chat')] = Msg(CardKey(renders[i].ticket_id), renders[i].content)
       /\ \A t \in TicketIds, pressed \in DOMAIN chat :
              begin_take_ticket(t, pressed) /\ StatusOf(t) = "new"
              => tickets'[t].status = "working"
       /\ \A u \in Users, text \in MessageTexts :
              begin_admin_reply(u, text)
              => LET t == reply_ticket_id[u] IN
                 /\ Len(tickets'[t].messages) = Len(tickets[t].messages) + 1
                 /\ tickets'[t].messages[Len(tickets'[t].messages)].sender = "support"
                 /\ tickets'[t].last_actor = "support"
       /\ \A t \in TicketIds, pressed \in DOMAIN chat :
              begin_close_ticket(t, pressed) => tickets'[t].status = "done"
       /\ \A k \in DOMAIN flows :
              (flows[k].op = "close" /\ flows[k].pc = "render" /\ flows'[k] # flows[k])
              => /\ flows'[k].pc = "prompt"
                 /\ tickets[flows[k].ticket_id].status = "done"
       /\ \A t \in TicketIds :
              handle_rating(t, "good") => tickets'[t].rating = "good"]_vars
C22_Witness ==
    /\ 1 \in DOMAIN tickets
    /\ tickets[1].status = "done"
    /\ tickets[1].rating = "good"
    /\ Len(tickets[1].messages) = 2
    /\ tickets[1].last_actor = "support"
    /\ 1 \in rate_prompts
    /\ TICKET_CARD_MESSAGES[1] = 1
    /\ Len(chat) = 1
    /\ chat[1].content.status = "done"
    /\ \A k \in DOMAIN flows : flows[k] = NoFlow

(* C28: when two handlers that render the card of one ticket interleave,   *)
(* no value captured before an await overwrites a newer one: when the      *)
(* second of the two renders has returned and nothing is in progress any   *)
(* more, the tracked id is that of the message rendered last and the       *)
(* message shows the status and the messages the ticket has.               *)
Quiet == /\ \A k \in DOMAIN flows : flows[k] = NoFlow
         /\ \A i \in DOMAIN renders : renders[i] = NoRender
Rendered(ev, t) ==
    /\ ev.op \in {"edit", "send"}
    /\ ev.res \in {"edited", "sent"}
    /\ ev.key = CardKey(t)
C28_NoStaleOverwrite ==
    [][\A t \in TicketIds :
           (Rendered(last, t) /\ Rendered(last', t) /\ ~Quiet /\ Quiet')
           => /\ TICKET_CARD_MESSAGES'[t] = last'.id
              /\ chat'[last'.id].content.status = tickets'[t].status
              /\ chat'[last'.id].content.messages = tickets'[t].messages]_vars
\* what holds: the message a render wrote shows what the render was called with
RenderWritesCaptured ==
    [][\A i \in DOMAIN renders :
           ((card_edit(i) \/ card_send(i)) /\ last'.res \in {"edited", "sent"})
           => /\ chat'[last'.id].content = renders[i].content
              /\ TICKET_CARD_MESSAGES'[renders[i].ticket_id] = last'.id]_vars

Alive == {i \in DOMAIN tasks : tasks[i].pc # "done" /\ ~tasks[i].cancel}
C32_OneLoopWhileRunning == running => Cardinality(Alive) = 1

----------------------------------------------------------------------------
(* Properties of the entry points *)

\* an event sent by u: a free text, a media message or a button
EventOf(u) ==
    \/ text_message_handler(u)
    \/ media_handler(u)
    \/ \E data \in CallbackData : callback_handler(u, data)

\* a step that takes or closes a ticket, clears tickets, appends a message of
\* the support, or changes the ban registry
OperatorEffect ==
    \/ \E t \in DOMAIN tickets : t \notin DOMAIN tickets'
    \/ \E t \in DOMAIN tickets \cap DOMAIN tickets' :
          \/ tickets'[t].status # tickets[t].status
          \/ /\ Len(tickets'[t].messages) > Len(tickets[t].messages)
             /\ tickets'[t].last_actor = "support"
    \/ bans' # bans

(* C33: take, close, clear of the active tickets, ban, unban and the append *)
(* of a support message happen only in the handling of an event the        *)
(* operator sent: no button and no text of another user has such an effect. *)
C33_OperatorOnly ==
    [][\A u \in Users \ {ADMIN_ID} : EventOf(u) => ~OperatorEffect]_vars

\* what holds of the ban registry: the ban dialogue is reached only through
\* admin_text_handler, which text_message_handler calls for the operator alone
BanOperatorOnly ==
    [][\A u \in Users \ {ADMIN_ID} : EventOf(u) => bans' = bans]_vars

\* the tickets a step appended a message of this sender to
AppendedBy(sender) ==
    {t \in DOMAIN tickets \cap DOMAIN tickets' :
        /\ Len(tickets'[t].messages) = Len(tickets[t].messages) + 1
        /\ tickets'[t].messages[Len(tickets'[t].messages)].sender = sender}

(* C34: a message of the support is appended only to a ticket whose status  *)
(* is working when it is appended, also when the ticket was closed between *)
(* the press of the reply button and the reply.                            *)
C34_ReplyOnlyWorking ==
    [][\A t \in AppendedBy("support") : tickets[t].status = "working"]_vars

\* what holds: the reply button itself opens the dialogue for a working
\* ticket only
ReplyButtonOnlyWorking ==
    [][\A u \in Users, t \in TicketIds :
          handle_reply_ticket(u, t) /\ state'[u] = "awaiting_reply" /\ state[u] # "awaiting_reply"
              => StatusOf(t) = "working"]_vars

\* no two messages of the user follow one another
NoConsecutiveUser ==
    \A t \in DOMAIN tickets :
        \A i \in 1..(Len(tickets[t].messages) - 1) :
            ~(tickets[t].messages[i].sender = "user"
              /\ tickets[t].messages[i + 1].sender = "user")

(* C35: a free text or a media message of a user is appended to the user's *)
(* active ticket only when the ticket's last_actor is support, and so in   *)
(* every reachable state no ticket holds two consecutive messages of the   *)
(* user.                                                                   *)
C35_UserWaitsForSupport ==
    [][/\ \A t \in AppendedBy("user") : tickets[t].last_actor = "support"
       /\ NoConsecutiveUser']_vars

\* the user wrote again after the support had answered
C35_Witness ==
    /\ last.op \in {"text", "media"}
    /\ last.res = "user"
    /\ \E t \in DOMAIN tickets :
          /\ Len(tickets[t].messages) = 3
          /\ tickets[t].messages[2].sender = "support"
          /\ tickets[t].messages[3].sender = "user"

(* C36: the skip flag of a user is true only while the user's state is     *)
(* awaiting_suggestion or awaiting_review, entered through the prompt      *)
(* after a rating: an event that moves the user to another state, or that  *)
(* enters a feedback state through the regular entry points, leaves the    *)
(* flag false.                                                             *)
C36_SkipOnlyWhilePrompted ==
    [][\A u \in Users :
          /\ skip_cooldown'[u] =>
                state'[u] \in {"awaiting_suggestion", "awaiting_review"}
          /\ \A kind \in Kinds :
                feedback_command(u, kind) \/ feedback_button(u, kind) =>
                    ~skip_cooldown'[u]]_vars

----------------------------------------------------------------------------
(* Properties of the ticket-card registry *)

(* C37: in every reachable state no two different tickets are mapped to the *)
(* same message id in TICKET_CARD_MESSAGES, also for a ticket without a     *)
(* tracked card for which take or close adopted the id of the message      *)
(* whose button was pressed.                                               *)
C37_CardIdsDistinct ==
    \A t1, t2 \in TicketIds :
        t1 # t2 /\ TICKET_CARD_MESSAGES[t1] # 0 =>
            TICKET_CARD_MESSAGES[t1] # TICKET_CARD_MESSAGES[t2]

\* C38: the conversation state carries what its branch reads: a user in
\* awaiting_reply has a reply ticket id, the operator in awaiting_ban_reason
\* has a stored ban target, the operator in search_ticket_input has the id
\* of the search message.
C38_StateCarriesPayload ==
    /\ \A u \in Users : state[u] = "awaiting_reply" => reply_ticket_id[u] # 0
    /\ state[ADMIN_ID] = "awaiting_ban_reason" => ban_user_id # <<>>
    /\ state[ADMIN_ID] = "search_ticket_input" => search_menu_msg_id # 0

\* the operator entered a ban target after a search and an answered reply
C38_Witness ==
    /\ state[ADMIN_ID] = "awaiting_ban_reason"
    /\ ban_user_id # <<>>
    /\ search_menu_msg_id # 0
    /\ \E t \in DOMAIN tickets : tickets[t].last_actor = "support"

\* C39: a text or a media message handled while its sender is banned
\* creates no ticket, appends to no ticket and creates no feedback record,
\* whatever the state of the sender is.
C39_BannedWritesNothing ==
    [][\A u \in Users :
           is_banned(u) /\ (text_message_handler(u) \/ media_handler(u))
           => /\ tickets' = tickets
              /\ next_id' = next_id
              /\ feedbacks' = feedbacks
              /\ last_feedback' = last_feedback]_vars

\* a banned user pressed the suggestion button and the text that followed
\* was dropped: no feedback record exists
C39_Witness ==
    /\ is_banned("u1")
    /\ last.op = "text" /\ last.res = "banned"
    /\ state["u1"] = "awaiting_suggestion"
    /\ feedbacks = <<>>

\* C40: every text of the operator handled in awaiting_ban_reason leaves
\* the operator idle, whatever target the id branch stored.
C40_BanFlowEnds ==
    [][\A text \in Reasons :
           handle_ban_reason(text) => state'[ADMIN_ID] = "idle"]_vars

\* what holds of the reason branch: a target other than 0 that is not
\* banned yet, a negative one included, is banned and the operator is idle
BanFlowEndsForNewTarget ==
    [][\A text \in Reasons :
           /\ handle_ban_reason(text)
           /\ ban_user_id # <<>>
           /\ stored_user_id # 0
           /\ ReasonOf(stored_user_id) = None
           => /\ state'[ADMIN_ID] = "idle"
              /\ ReasonOf(stored_user_id)' = text]_vars

====
